---- MODULE Spec2Model ----
(***************************************************************************)
(* BuildingLens server: the identification pipeline (identifyBuilding),    *)
(* the result cache and the building cache it reads and writes, and the    *)
(* geometry and scoring functions it ranks candidates with.                *)
(*                                                                         *)
(* Number model.  The code computes in IEEE doubles; the model computes    *)
(* in integers:                                                            *)
(*   latitude, longitude   micro-degrees (1e-6 degree)                     *)
(*   bearings, headings    deci-degrees  (0.1 degree)                      *)
(*   distances, radii      whole metres                                    *)
(*   component scores      1/10000 (ScoreScale = 1.0)                      *)
(*   confidence            1/100 of a percent point (10000 = 100.00)       *)
(*   time                  hours                                           *)
(* All model coordinates lie within a few hundred metres of (0, 0), where  *)
(* cos(latitude) = 1 and sin(x) = x to the precision of the model.         *)
(* An optional number that is undefined is Undefined (-1), an optional     *)
(* string that is undefined is UndefinedStr, and a value that may be null  *)
(* is a sequence of length 0 (null) or 1.                                  *)
(***************************************************************************)
EXTENDS Integers, Sequences, FiniteSets, TLC

Undefined == -1
UndefinedStr == "undefined"
None == <<>>
Some(x) == <<x>>

Abs(x) == IF x < 0 THEN -x ELSE x
Min(a, b) == IF a <= b THEN a ELSE b
\* The sequence without its i-th element.
Remove(s, i) == SubSeq(s, 1, i - 1) \o SubSeq(s, i + 1, Len(s))
Max(a, b) == IF a >= b THEN a ELSE b

\* The JavaScript remainder a % m: the result has the sign of the dividend.
JsRem(a, m) == IF a >= 0 THEN a % m ELSE -((-a) % m)

\* Math.round on a value given in tenths: a tie rounds towards +infinity.
RoundTenths(x) == (x + 5) \div 10

RECURSIVE IsqrtSearch(_, _, _)
IsqrtSearch(x, lo, hi) ==
  IF lo >= hi THEN lo
  ELSE LET mid == (lo + hi + 1) \div 2
       IN IF mid * mid <= x THEN IsqrtSearch(x, mid, hi)
                            ELSE IsqrtSearch(x, lo, mid - 1)

\* Math.sqrt, rounded down to an integer.
Isqrt(x) == IsqrtSearch(x, 0, 46340)

(***************************************************************************)
(* bearing.service.ts                                                      *)
(***************************************************************************)
EARTH_RADIUS_METERS == 6371000

\* toRadians: PI / 180, times 1e5.
RadiansPerDegreeE5 == 1745

\* normalizeBearing, on deci-degrees.
normalizeBearing(bearing) ==
  LET normalized == JsRem(bearing, 3600)
  IN IF normalized < 0 THEN normalized + 3600 ELSE normalized

\* calculateDistance measured from the origin, whatever `from` is.
calculateDistanceFromOrigin(from, to) ==
  LET cMicroDeg == Isqrt(to.latitude * to.latitude + to.longitude * to.longitude)
  IN (((cMicroDeg * (EARTH_RADIUS_METERS \div 1000)) \div 1000) * RadiansPerDegreeE5
        + 50000) \div 100000

\* calculateDistance.  With a = sin^2(dLat/2) + cos(lat1) cos(lat2) sin^2(dLon/2)
\* and c = 2 atan2(sqrt(a), sqrt(1 - a)), the small angles of the model give
\* c = sqrt(dLat^2 + dLon^2) radians; the result is EARTH_RADIUS_METERS * c.
calculateDistance(from, to) ==
  LET deltaLat == to.latitude - from.latitude
      deltaLon == to.longitude - from.longitude
      cMicroDeg == Isqrt(deltaLat * deltaLat + deltaLon * deltaLon)
  IN (((cMicroDeg * (EARTH_RADIUS_METERS \div 1000)) \div 1000) * RadiansPerDegreeE5
        + 50000) \div 100000

\* atan(t / 1000) for 0 <= t <= 1000, in deci-degrees (0..450).
AtanUnit(t) == (t * (450 + (157 * (1000 - t)) \div 1000)) \div 1000

\* toDegrees(Math.atan2(y, x)), in deci-degrees (-1800..1800).
Atan2Deg(y, x) ==
  LET ax == Abs(x)
      ay == Abs(y)
      acute == IF ax = 0 /\ ay = 0 THEN 0
               ELSE IF ay <= ax THEN AtanUnit((ay * 1000) \div ax)
               ELSE 900 - AtanUnit((ax * 1000) \div ay)
      upper == IF x >= 0 THEN acute ELSE 1800 - acute
  IN IF y >= 0 THEN upper ELSE -upper

\* calculateBearing.  y = sin(dLon) cos(lat2) and
\* x = cos(lat1) sin(lat2) - sin(lat1) cos(lat2) cos(dLon) are dLon and dLat
\* for the small angles of the model.
calculateBearing(from, to) ==
  LET y == to.longitude - from.longitude
      x == to.latitude - from.latitude
  IN normalizeBearing(Atan2Deg(y, x))

\* calculateBearingDifference without the choice of the smaller angle.
calculateBearingDifferenceNoWrap(bearing1, bearing2) ==
  Abs(normalizeBearing(bearing1) - normalizeBearing(bearing2))

\* calculateBearingDifference.
calculateBearingDifference(bearing1, bearing2) ==
  LET normalized1 == normalizeBearing(bearing1)
      normalized2 == normalizeBearing(bearing2)
      diff == Abs(normalized1 - normalized2)
  IN IF diff > 1800 THEN 3600 - diff ELSE diff

\* calculateBearingAndDistance: bearingDiff is set only when a heading is given
\* (userHeading !== undefined, so heading 0 counts).
calculateBearingAndDistance(from, to, userHeading) ==
  LET bearing == calculateBearing(from, to)
  IN [distance |-> calculateDistance(from, to),
      bearing |-> bearing,
      bearingDiff |-> IF userHeading # Undefined
                      THEN calculateBearingDifference(bearing, userHeading)
                      ELSE Undefined]

(***************************************************************************)
(* bearing.service in floating point                                       *)
(*                                                                         *)
(* normalizeBearing adds 360 to a negative remainder, and a sum of doubles *)
(* is rounded to the nearest double.  Here a number is a binary float with *)
(* a significand of 12 bits in place of 53, held as an integer count of    *)
(* 1/64 degree: below 64 degrees every count is a float, from 64 to 128    *)
(* degrees every second one, from 256 to 512 degrees every eighth one.     *)
(***************************************************************************)
UnitsPerDegree == 64

\* The spacing of the floats around a value of magnitude m.
RECURSIVE FloatSpacingFrom(_, _, _)
FloatSpacingFrom(m, limit, spacing) ==
  IF m < limit THEN spacing ELSE FloatSpacingFrom(m, 2 * limit, 2 * spacing)

FloatSpacing(m) == FloatSpacingFrom(m, 64 * UnitsPerDegree, 1)

\* The float nearest to the exact value x, a tie going to the even significand.
FloatRound(x) ==
  LET m == Abs(x)
      spacing == FloatSpacing(m)
      q == m \div spacing
      r == m % spacing
      up == 2 * r > spacing \/ (2 * r = spacing /\ q % 2 = 1)
      rounded == (IF up THEN q + 1 ELSE q) * spacing
  IN IF x < 0 THEN -rounded ELSE rounded

\* normalizeBearing (lines 37-43): the remainder is exact, the sum is rounded.
normalizeBearingFloat(bearing) ==
  LET normalized == JsRem(bearing, 360 * UnitsPerDegree)
  IN IF normalized < 0 THEN FloatRound(normalized + 360 * UnitsPerDegree) ELSE normalized

(***************************************************************************)
(* scoring.service.ts                                                      *)
(***************************************************************************)
ScoreScale == 10000

\* SOURCE_WEIGHTS, times ScoreScale.
SOURCE_WEIGHTS ==
  [google_places |-> 10000, google_geocoding |-> 8000, nominatim |-> 6000, cache |-> 7000]

\* SCORING_WEIGHTS, in tenths.
SCORING_WEIGHTS == [distance |-> 4, bearing |-> 3, source |-> 2, metadata |-> 1]

\* DISTANCE_PARAMS.optimalDistance, metres.
OptimalDistance == 10

\* Math.exp(-DISTANCE_PARAMS.decayRate), decayRate = 0.05, times ScoreScale.
DecayPerMetre == 9512

\* BEARING_PARAMS, deci-degrees.
PerfectAlignment == 150
MaxPenalty == 900

\* Math.exp(-decayRate * n) for n whole metres, times ScoreScale: acc starts at 1.0
\* and is multiplied n times by exp(-decayRate).
RECURSIVE ExpDecayFrom(_, _)
ExpDecayFrom(n, acc) ==
  IF n <= 0 \/ acc = 0 THEN acc
  ELSE ExpDecayFrom(n - 1, (acc * DecayPerMetre) \div ScoreScale)

ExpDecay(n) == ExpDecayFrom(n, ScoreScale)

\* calculateDistanceScore with half the score inside the optimal distance.
calculateDistanceScoreHalved(distance) ==
  IF distance <= OptimalDistance THEN ScoreScale \div 2
  ELSE Max(0, Min(ScoreScale, ExpDecay(distance - OptimalDistance)))

\* calculateDistanceScore.
calculateDistanceScore(distance) ==
  IF distance <= OptimalDistance THEN ScoreScale
  ELSE LET excessDistance == distance - OptimalDistance
           score == ExpDecay(excessDistance)
       IN Max(0, Min(ScoreScale, score))

\* calculateBearingScore without the cut at maxPenalty and without the clamp.
calculateBearingScoreUnclamped(bearingDiff) ==
  IF bearingDiff = Undefined THEN ScoreScale \div 2
  ELSE IF bearingDiff <= PerfectAlignment THEN ScoreScale
  ELSE ScoreScale - ((bearingDiff - PerfectAlignment) * ScoreScale)
                      \div (MaxPenalty - PerfectAlignment)

\* calculateBearingScore.
calculateBearingScore(bearingDiff) ==
  IF bearingDiff = Undefined THEN ScoreScale \div 2
  ELSE IF bearingDiff <= PerfectAlignment THEN ScoreScale
  ELSE IF bearingDiff >= MaxPenalty THEN 0
  ELSE LET score == ScoreScale - ((bearingDiff - PerfectAlignment) * ScoreScale)
                                   \div (MaxPenalty - PerfectAlignment)
       IN Max(0, Min(ScoreScale, score))

\* calculateSourceScore with one weight for the two geocoders.
calculateSourceScoreGeocodersAlike(source) ==
  IF source = "google_geocoding" THEN SOURCE_WEIGHTS["nominatim"] ELSE SOURCE_WEIGHTS[source]

\* calculateSourceScore.
calculateSourceScore(source) == SOURCE_WEIGHTS[source]

\* calculateMetadataScore.
calculateMetadataScore(hasName, hasRating) ==
  LET nameScore == IF hasName THEN 6000 ELSE 0
      ratingScore == IF hasRating THEN 4000 ELSE 0
  IN Min(ScoreScale, nameScore + ratingScore)

\* calculateConfidenceScore: the weighted sum as a percentage rounded to two
\* decimals (Math.round(percentage * 100) / 100).
calculateConfidenceScore(factors) ==
  LET distanceScore == calculateDistanceScore(factors.distance)
      bearingScore == calculateBearingScore(factors.bearingDiff)
      sourceScore == calculateSourceScore(factors.source)
      metadataScore == calculateMetadataScore(factors.hasName, factors.hasRating)
      rawScore == distanceScore * SCORING_WEIGHTS.distance
                  + bearingScore * SCORING_WEIGHTS.bearing
                  + sourceScore * SCORING_WEIGHTS.source
                  + metadataScore * SCORING_WEIGHTS.metadata
  IN RoundTenths(rawScore)

(***************************************************************************)
(* Objects, JSON and the sort                                              *)
(***************************************************************************)
NullStr == "null"

\* JavaScript truthiness of an optional string (undefined, null and '' are falsy).
Truthy(s) == s \notin {UndefinedStr, NullStr, ""}

\* obj[key], undefined when the object has no such key (metadata values are numbers).
Get(obj, key) == IF key \in DOMAIN obj THEN obj[key] ELSE Undefined

\* { ...a, ...b }: the keys of both, b's value where both have the key.
Spread(a, b) ==
  [k \in (DOMAIN a) \cup (DOMAIN b) |-> IF k \in DOMAIN b THEN b[k] ELSE a[k]]

\* The optional fields of a BuildingCandidate, by type.
OptionalNumberKeys == {"id", "bearingDiff"}
OptionalStringKeys == {"externalId", "name"}

\* JSON.stringify drops every property whose value is undefined.
StripMetadata(md) == [k \in {j \in DOMAIN md : md[j] # Undefined} |-> md[k]]

StripCandidate(c) ==
  LET kept == {k \in DOMAIN c :
                 /\ ~(k \in OptionalNumberKeys /\ c[k] = Undefined)
                 /\ ~(k \in OptionalStringKeys /\ c[k] = UndefinedStr)}
  IN [k \in kept |-> IF k = "metadata" THEN StripMetadata(c[k]) ELSE c[k]]

\* JSON.stringify(candidates): the text, as the list of the objects it spells.
JSONStringify(candidates) ==
  [json |-> [i \in 1..Len(candidates) |-> StripCandidate(candidates[i])]]

\* JSON.parse(text) as BuildingCandidate[].
JSONParse(text) == text.json

\* The comparator of candidates.sort: (a, b) => b.confidence - a.confidence.
compareByConfidence(a, b) == b.confidence - a.confidence

\* A sort that is not stable: x goes before the elements it compares equal to.
RECURSIVE InsertBeforeEquals(_, _)
InsertBeforeEquals(sorted, c) ==
  IF sorted = <<>> THEN <<c>>
  ELSE IF compareByConfidence(Head(sorted), c) < 0
       THEN <<Head(sorted)>> \o InsertBeforeEquals(Tail(sorted), c)
       ELSE <<c>> \o sorted

\* Array.prototype.sort is stable: x goes after every element that does not
\* compare greater than it.
RECURSIVE InsertByConfidence(_, _)
InsertByConfidence(sorted, c) ==
  IF sorted = <<>> THEN <<c>>
  ELSE IF compareByConfidence(Head(sorted), c) <= 0
       THEN <<Head(sorted)>> \o InsertByConfidence(Tail(sorted), c)
       ELSE <<c>> \o sorted

RECURSIVE SortFrom(_, _)
SortFrom(sorted, rest) ==
  IF rest = <<>> THEN sorted
  ELSE SortFrom(InsertByConfidence(sorted, Head(rest)), Tail(rest))

\* identifyBuilding without the sort of line 479.
SortByConfidenceSkipped(candidates) == candidates

\* candidates.sort((a, b) => b.confidence - a.confidence)
SortByConfidence(candidates) == SortFrom(<<>>, candidates)

\* array.slice(0, n)
Slice0(seq, n) == SubSeq(seq, 1, Min(n, Len(seq)))

(***************************************************************************)
(* Configuration (config/env.ts, config/redis.ts), in hours and metres     *)
(***************************************************************************)
SEARCH_RADIUS_METERS == 100
REDIS_TTL_IDENTIFY == 1
REDIS_TTL_PLACES == 168
REDIS_TTL_GEOCODING == 720

(***************************************************************************)
(* The world outside: requests, provider answers                           *)
(***************************************************************************)
Point(lat, lon) == [latitude |-> lat, longitude |-> lon]

\* Validated request bodies (IdentifyBuildingInput).
Inputs ==
  { [latitude |-> 0, longitude |-> 0, heading |-> 900, searchRadius |-> Undefined],
    [latitude |-> 4, longitude |-> 3, heading |-> Undefined, searchRadius |-> 100] }

\* Request bodies that differ in one part of the cache key or in none after
\* rounding: coordinates a few micro-degrees apart, headings around 90
\* degrees, heading 0, no heading, an explicit and a default radius.
KeyInputs ==
  [latitude : {0, 4, 5, -4}, longitude : {0}, heading : {Undefined, 0, 896, 904, 905},
   searchRadius : {Undefined, 100, 50}]

\* Two request bodies with one cache key: 4 and 3 micro-degrees round to
\* 0.00000, 90.4 rounds to 90, and 100 is the default radius.
SameKeyInputs ==
  { [latitude |-> 0, longitude |-> 0, heading |-> 900, searchRadius |-> Undefined],
    [latitude |-> 4, longitude |-> 3, heading |-> 904, searchRadius |-> 100] }

\* Request bodies at two points a few micro-degrees apart, with no heading,
\* heading 0 and heading 90.
TieInputs ==
  [latitude : {0, 4}, longitude : {0}, heading : {Undefined, 0, 900},
   searchRadius : {Undefined}]

Place(id, name, lat, lon, rating) ==
  [placeId |-> id, name |-> name, address |-> "addr-" \o id,
   coordinates |-> Point(lat, lon), rating |-> rating,
   userRatingsTotal |-> IF rating = Undefined THEN Undefined ELSE 12,
   metadata |-> [businessStatus |-> 1]]

PlaceA == Place("pA", "A", 0, 180, 47)
PlaceB == Place("pB", "B", 540, 0, Undefined)
PlaceC == Place("pC", "C", 0, -2700, 40)
PlaceD == Place("pD", "D", 0, 360, Undefined)
PlaceE == Place("pE", "E", 90, 270, 33)
PlaceF == Place("pF", "F", -90, 270, 33)
PlaceG == Place("pG", "G", 0, 450, 21)
PlaceH == Place("pH", "H", 0, 270, 45)

\* What the places adapter can answer (PlaceResult[]).
PlacesResponses ==
  { <<>>,
    <<PlaceB, PlaceA>>,
    <<PlaceC, PlaceA, PlaceB>>,
    <<PlaceC, PlaceG, PlaceF, PlaceE, PlaceD, PlaceH, PlaceA>> }

GeocodeGoogle ==
  [name |-> UndefinedStr, address |-> "addr-gG", coordinates |-> Point(90, 0),
   placeId |-> "gG", source |-> "google_geocoding", metadata |-> [locationType |-> 1]]

GeocodeNominatim ==
  [name |-> "N", address |-> "addr-gN", coordinates |-> Point(0, 90),
   placeId |-> "gN", source |-> "nominatim", metadata |-> [osmId |-> 7]]

\* What the geocoding adapter can answer (GeocodingResult | null).
GeocodeResponses == {None, Some(GeocodeGoogle), Some(GeocodeNominatim)}

\* An item of the Nearby Search response: types is the set of its types,
\* geometry its location when it has one.
RawPlace(id, name, types, geometry, rating, businessStatus) ==
  [place_id |-> id, name |-> name, vicinity |-> "addr-" \o id,
   formatted_address |-> UndefinedStr, types |-> types, geometry |-> geometry,
   rating |-> rating,
   user_ratings_total |-> IF rating = Undefined THEN Undefined ELSE 12,
   business_status |-> businessStatus]

RawA == RawPlace("pA", "A", {"establishment", "store"}, Some(Point(0, 180)), 47, 1)
RawB == RawPlace("pB", "B", {"premise"}, Some(Point(540, 0)), Undefined, Undefined)
\* A route has no building-related type; an item may lack its geometry.
RawRoute == RawPlace("pR", "R", {"route"}, Some(Point(0, 90)), Undefined, 1)
RawUnlocated == RawPlace("pU", "U", {"point_of_interest"}, None, 40, 1)

\* What the Places API can answer with HTTP 200: the status and the results.
PlacesApiResponses ==
  { [status |-> "OK", results |-> <<RawB, RawRoute, RawA, RawUnlocated>>],
    [status |-> "OK", results |-> <<RawRoute>>],
    [status |-> "OK", results |-> <<>>],
    [status |-> "ZERO_RESULTS", results |-> <<>>],
    [status |-> "OVER_QUERY_LIMIT", results |-> <<>>],
    [status |-> "REQUEST_DENIED", results |-> <<RawA>>] }

\* The points and radii findNearbyPlaces is called with: two points with one
\* places key, a third one; the default radius and an explicit one.
AdapterPoints == {Point(0, 0), Point(4, 3), Point(540, 0)}
AdapterRadii == {Undefined, 50}

\* The first result of a Geocoding API response: premise is the long_name of
\* its premise or point_of_interest component, when it has one.
RawGeocode ==
  [formatted_address |-> "addr-gG", location |-> Point(90, 0), place_id |-> "gG",
   location_type |-> 1, premise |-> UndefinedStr]

\* What the Geocoding API can answer with HTTP 200.
GoogleGeocodeResponses ==
  { [status |-> "OK", results |-> <<RawGeocode>>],
    [status |-> "OK", results |-> <<>>],
    [status |-> "ZERO_RESULTS", results |-> <<>>] }

\* What Nominatim can answer with HTTP 200: an empty body, an error, a place.
NominatimResponses ==
  { None,
    Some([error |-> TRUE, display_name |-> UndefinedStr, location |-> Point(0, 0),
          place_id |-> UndefinedStr, osm_id |-> Undefined, building |-> UndefinedStr]),
    Some([error |-> FALSE, display_name |-> "addr-gN", location |-> Point(0, 90),
          place_id |-> "gN", osm_id |-> 7, building |-> "N"]) }

\* The factors calculateConfidenceScore is applied to: distances on both
\* sides of the optimal distance and far beyond it, no bearingDiff and
\* bearingDiffs on both sides of 15 and 90 degrees up to 180, every source,
\* every combination of hasName and hasRating.
FactorDistances == {0, 5, 10, 11, 12, 25, 60, 100, 200, 1000}
FactorBearingDiffs == {Undefined, 0, 150, 151, 500, 899, 900, 1800}
FactorSources == {"google_places", "google_geocoding", "nominatim", "cache"}
ScoringFactors ==
  [distance : FactorDistances, bearingDiff : FactorBearingDiffs, source : FactorSources,
   hasName : BOOLEAN, hasRating : BOOLEAN]

\* Bearings handed to calculateBearingDifference, deci-degrees: negative, on
\* both sides of 0, 180 and 360, beyond 360.
GeoBearings ==
  {-7200, -3601, -3600, -450, -10, -1, 0, 1, 10, 100, 1800, 1801, 3500, 3590, 3599,
   3600, 4500, 7205}

\* Bearings handed to normalizeBearing, each a float, in 1/64 degree: -720,
\* -360, -45, -1 and -1/64 degrees; 0, 1/64, 45, 359.875, 360, 450 and 720.
FloatBearings ==
  {-46080, -23040, -2880, -64, -1, 0, 1, 2880, 23032, 23040, 28800, 46080}

\* Points handed to calculateDistance.
GeoPoints == [latitude : {0, 4, 540, -90}, longitude : {0, 180, -2700}]

\* Buildings handed to saveBuildingToDatabase directly (SpecSave): the same
\* (externalId, source) with different fields, another source, no externalId.
SaveInputs ==
  { [externalId |-> "pA", source |-> "google_places", name |-> "A", address |-> "addr-1",
     latitude |-> 0, longitude |-> 180, metadata |-> [rating |-> 47], expiresAt |-> 168],
    [externalId |-> "pA", source |-> "google_places", name |-> UndefinedStr,
     address |-> "addr-2", latitude |-> 9, longitude |-> 181,
     metadata |-> [rating |-> 48, confidence |-> Undefined], expiresAt |-> 169],
    [externalId |-> "pA", source |-> "nominatim", name |-> "A", address |-> "addr-1",
     latitude |-> 0, longitude |-> 180, metadata |-> [osmId |-> 7], expiresAt |-> Undefined],
    [externalId |-> UndefinedStr, source |-> "google_geocoding", name |-> "G",
     address |-> "addr-3", latitude |-> 90, longitude |-> 0,
     metadata |-> [locationType |-> 1], expiresAt |-> 168] }

(***************************************************************************)
(* Bounds of the model                                                     *)
(***************************************************************************)
\* identifyBuilding invocations in one behaviour of Spec.
MaxInvocations == 2
\* Clock steps in one behaviour.
MaxTicks == 1
\* saveBuildingToDatabase calls in one behaviour of SpecSave.
MaxSaveTasks == 3
\* The requests one mounted hook sends.
MaxHookRequests == 2
\* The saveBuildingToDatabase calls of one behaviour of SpecPool.
MaxPoolSaves == 21
\* The calls of gracefulShutdown in one process, and the connections open when
\* the first arrives.
MaxSignals == 2
MaxConnections == 1

\* Request slots.
Requests == {1, 2}
\* The requests Spec serves: one invocation at a time.
Serving == {1}
\* The saves of one invocation that reject, of n started: none, the first, all.
SaveFailures(n) == {{}, 1..n} \cup {{i} : i \in {1} \cap 1..n}
SaveTasks == 1..MaxSaveTasks
\* How far the clock moves in one step: an hour, or a week.
TickSteps == {REDIS_TTL_IDENTIFY, REDIS_TTL_PLACES}

VARIABLES
  clock,        \* [now, ticks]: the time (Date.now(), NOW()) and the steps taken
  rows,         \* the cached_buildings table: a set of rows
  nextId,       \* the next id uuid_generate_v4() hands out
  resultCache,  \* Redis keys identify:* : key -> [value, expiresAt]
  req,          \* the identifyBuilding invocations in flight, by request
  invocations,  \* identifyBuilding invocations started so far
  task,         \* the saveBuildingToDatabase calls of SpecSave, by task
  provider,     \* what the external providers hold: [places, geocode]
  adapter,      \* the findNearbyPlaces or reverseGeocode call in flight
  calc,         \* the scoring call under evaluation: its arguments and result
  http,         \* the POST /api/identify exchange in flight: body, response
  health,       \* the GET /health exchange in flight: probes, response
  hook,         \* the useIdentifyBuilding hook of one mounted component
  pool,         \* the pg connection pool and the calls that use it
  proc          \* the server process: signals, shutdown, exit

vars == <<clock, rows, nextId, resultCache, req, invocations, task, provider, adapter, calc, http, health, hook, pool, proc>>

(***************************************************************************)
(* database.service.ts: the cached_buildings table                         *)
(***************************************************************************)
\* The rows SELECT ... WHERE external_id = $1 AND source = $2 finds.
MatchingRows(table, externalId, source) ==
  {row \in table : row.external_id = externalId /\ row.source = source}

\* getBuildingByExternalId: result.rows[0], or null when no row matches.  The set
\* of answers the query can give (the order of several matching rows is not fixed).
getBuildingByExternalId(table, externalId, source) ==
  LET found == MatchingRows(table, externalId, source)
  IN IF found = {} THEN {None} ELSE {Some(row) : row \in found}

\* INSERT INTO cached_buildings ... ($1 = building.externalId || null, ...).
InsertRow(table, id, building, now) ==
  table \cup
    {[id |-> id,
      external_id |-> IF Truthy(building.externalId) THEN building.externalId ELSE NullStr,
      source |-> building.source,
      name |-> IF Truthy(building.name) THEN building.name ELSE NullStr,
      address |-> building.address,
      latitude |-> building.latitude,
      longitude |-> building.longitude,
      metadata |-> StripMetadata(building.metadata),
      created_at |-> now,
      updated_at |-> now,
      expires_at |-> building.expiresAt]}

\* UPDATE cached_buildings SET name, address, location, metadata, updated_at,
\* expires_at WHERE id = $7.
UpdateRow(table, existingId, building, now) ==
  {IF row.id = existingId
   THEN [row EXCEPT !.name = IF Truthy(building.name) THEN building.name ELSE NullStr,
                    !.address = building.address,
                    !.latitude = building.latitude,
                    !.longitude = building.longitude,
                    !.metadata = StripMetadata(building.metadata),
                    !.updated_at = now,
                    !.expires_at = building.expiresAt]
   ELSE row : row \in table}

\* The write of saveBuildingToDatabase (lines 29-98) once the existence check
\* has answered existingId (None for null): [rows, nextId, id].
WriteBuilding(table, idCounter, existingId, building, now) ==
  IF existingId # None
  THEN [rows |-> UpdateRow(table, existingId[1], building, now),
        nextId |-> idCounter,
        id |-> IF \E row \in table : row.id = existingId[1]
               THEN existingId[1] ELSE Undefined]
  ELSE [rows |-> InsertRow(table, idCounter, building, now),
        nextId |-> idCounter + 1,
        id |-> idCounter]

\* saveBuildingToDatabase without its existence check.
ExistingIdNull(answer) == None

\* existingId = existing?.id || null
ExistingId(answer) == IF answer = None THEN None ELSE Some(answer[1].id)

\* The lookup with the expiry test weakened to expires_at >= NOW().
RowsNearNotStrict(table, coordinates, radiusMeters, now) ==
  {row \in table :
     /\ calculateDistance(coordinates, Point(row.latitude, row.longitude)) <= radiusMeters
     /\ (row.expires_at = Undefined \/ row.expires_at >= now)}

\* The rows of the WHERE clause of findBuildingsNearLocation: within the radius
\* (ST_DWithin) and not expired (expires_at IS NULL OR expires_at > NOW()).
RowsNear(table, coordinates, radiusMeters, now) ==
  {row \in table :
     /\ calculateDistance(coordinates, Point(row.latitude, row.longitude)) <= radiusMeters
     /\ (row.expires_at = Undefined \/ row.expires_at > now)}

\* ORDER BY ST_Distance(location, point); rows at the same distance by id.
RECURSIVE OrderByDistance(_, _)
OrderByDistance(found, coordinates) ==
  IF found = {} THEN <<>>
  ELSE LET Dist(row) == calculateDistance(coordinates, Point(row.latitude, row.longitude))
           first == CHOOSE row \in found :
                      \A other \in found :
                        \/ Dist(row) < Dist(other)
                        \/ (Dist(row) = Dist(other) /\ row.id <= other.id)
       IN <<first>> \o OrderByDistance(found \ {first}, coordinates)

\* findBuildingsNearLocation: the rows mapped to CachedBuilding objects.
findBuildingsNearLocation(table, coordinates, radiusMeters, now) ==
  LET ordered == OrderByDistance(RowsNear(table, coordinates, radiusMeters, now), coordinates)
  IN [i \in 1..Len(ordered) |->
        [id |-> ordered[i].id,
         externalId |-> ordered[i].external_id,
         source |-> ordered[i].source,
         name |-> ordered[i].name,
         address |-> ordered[i].address,
         latitude |-> ordered[i].latitude,
         longitude |-> ordered[i].longitude,
         metadata |-> ordered[i].metadata,
         createdAt |-> ordered[i].created_at,
         updatedAt |-> ordered[i].updated_at,
         expiresAt |-> ordered[i].expires_at]]

(***************************************************************************)
(* cache.service.ts                                                        *)
(***************************************************************************)
\* Number.prototype.toFixed(5) of a coordinate, as sign and 1e-5 degrees: a
\* negative value keeps its minus sign also when it rounds to zero.
ToFixed5(v) == <<v < 0, (Abs(v) + 5) \div 10>>

\* A key that leaves the heading out.
getIdentifyCacheKeyNoHeading(lat, lon, heading, radius) ==
  <<"identify:", ToFixed5(lat), ToFixed5(lon), <<>>, radius>>

\* getIdentifyCacheKey.
getIdentifyCacheKey(lat, lon, heading, radius) ==
  <<"identify:", ToFixed5(lat), ToFixed5(lon),
    IF heading # Undefined THEN <<":h", RoundTenths(heading)>> ELSE <<>>,
    radius>>

\* redis.get(key): the stored text, or null when the key is absent or expired.
RedisGet(store, key, now) ==
  IF key \in DOMAIN store /\ now < store[key].expiresAt THEN Some(store[key].value) ELSE None

\* redis.setex(key, ttl, value).
RedisSetex(store, key, ttl, value, now) ==
  [k \in (DOMAIN store) \cup {key} |->
     IF k = key THEN [value |-> value, expiresAt |-> now + ttl] ELSE store[k]]

\* Redis drops the keys whose time to live has run out.
RedisExpire(store, now) ==
  [k \in {j \in DOMAIN store : now < store[j].expiresAt} |-> store[k]]

\* A read that takes a cached empty list for an absent key.
getCachedIdentifyResultsNonEmpty(store, coordinates, heading, radius, now) ==
  LET cacheKey == getIdentifyCacheKey(coordinates.latitude, coordinates.longitude,
                                      heading, radius)
      cached == RedisGet(store, cacheKey, now)
  IN IF cached = None \/ Len(JSONParse(cached[1])) = 0 THEN None
     ELSE Some(JSONParse(cached[1]))

\* getCachedIdentifyResults (lines 160-183), when redis.get answers: null for
\* an absent key, else the parsed list.
getCachedIdentifyResults(store, coordinates, heading, radius, now) ==
  LET cacheKey == getIdentifyCacheKey(coordinates.latitude, coordinates.longitude,
                                      heading, radius)
      cached == RedisGet(store, cacheKey, now)
  IN IF cached = None THEN None ELSE Some(JSONParse(cached[1]))

\* cacheIdentifyResults (lines 208-216), when redis.setex succeeds.
cacheIdentifyResults(store, coordinates, heading, radius, candidates, now) ==
  RedisSetex(store,
             getIdentifyCacheKey(coordinates.latitude, coordinates.longitude, heading, radius),
             REDIS_TTL_IDENTIFY, JSONStringify(candidates), now)

\* getCachedBuildings (lines 55-80), when findBuildingsNearLocation answers:
\* each CachedBuilding as a candidate of source 'cache'.
getCachedBuildings(table, coordinates, radiusMeters, now) ==
  LET cachedBuildings == findBuildingsNearLocation(table, coordinates, radiusMeters, now)
  IN [i \in 1..Len(cachedBuildings) |->
        [id |-> cachedBuildings[i].id,
         externalId |-> cachedBuildings[i].externalId,
         name |-> cachedBuildings[i].name,
         address |-> cachedBuildings[i].address,
         coordinates |-> Point(cachedBuildings[i].latitude, cachedBuildings[i].longitude),
         distance |-> 0,
         bearing |-> 0,
         bearingDiff |-> Undefined,
         confidence |-> 0,
         source |-> "cache",
         metadata |-> cachedBuildings[i].metadata]]

\* saveBuildingToCache without the spread of candidate.metadata.
BuildingDataComputedOnly(candidate, now) ==
  [externalId |-> candidate.externalId,
   source |-> IF candidate.source = "cache"
              THEN (IF "originalSource" \in DOMAIN candidate.metadata
                    THEN candidate.metadata.originalSource ELSE "cache")
              ELSE candidate.source,
   name |-> candidate.name,
   address |-> candidate.address,
   latitude |-> candidate.coordinates.latitude,
   longitude |-> candidate.coordinates.longitude,
   metadata |-> [distance |-> candidate.distance,
                bearing |-> candidate.bearing,
                bearingDiff |-> candidate.bearingDiff,
                confidence |-> candidate.confidence],
   expiresAt |-> now + REDIS_TTL_PLACES]

\* saveBuildingToCache (lines 102-128): the building handed to
\* saveBuildingToDatabase, ttlSeconds = CACHE_TTL.PLACES.
BuildingData(candidate, now) ==
  [externalId |-> candidate.externalId,
   source |-> IF candidate.source = "cache"
              THEN (IF "originalSource" \in DOMAIN candidate.metadata
                    THEN candidate.metadata.originalSource ELSE "cache")
              ELSE candidate.source,
   name |-> candidate.name,
   address |-> candidate.address,
   latitude |-> candidate.coordinates.latitude,
   longitude |-> candidate.coordinates.longitude,
   metadata |-> Spread(candidate.metadata,
                       [distance |-> candidate.distance,
                        bearing |-> candidate.bearing,
                        bearingDiff |-> candidate.bearingDiff,
                        confidence |-> candidate.confidence]),
   expiresAt |-> now + REDIS_TTL_PLACES]

(***************************************************************************)
(* identify.service.ts: the steps of identifyBuilding                      *)
(***************************************************************************)
\* const searchRadius = input.searchRadius || env.SEARCH_RADIUS_METERS
SearchRadius(input) ==
  IF input.searchRadius = Undefined \/ input.searchRadius = 0
  THEN SEARCH_RADIUS_METERS ELSE input.searchRadius

UserCoordinates(input) == Point(input.latitude, input.longitude)

\* Lines 415-432: a place as a candidate.
PlaceToCandidate(place) ==
  [id |-> Undefined,
   externalId |-> place.placeId,
   name |-> place.name,
   address |-> place.address,
   coordinates |-> place.coordinates,
   distance |-> 0,
   bearing |-> 0,
   bearingDiff |-> Undefined,
   confidence |-> 0,
   source |-> "google_places",
   metadata |-> Spread([rating |-> place.rating,
                        userRatingsTotal |-> place.userRatingsTotal],
                       place.metadata)]

\* Lines 440-450: the geocoding result as a candidate.
GeocodeToCandidate(geocodeResult) ==
  [id |-> Undefined,
   externalId |-> geocodeResult.placeId,
   name |-> geocodeResult.name,
   address |-> geocodeResult.address,
   coordinates |-> geocodeResult.coordinates,
   distance |-> 0,
   bearing |-> 0,
   bearingDiff |-> Undefined,
   confidence |-> 0,
   source |-> geocodeResult.source,
   metadata |-> geocodeResult.metadata]

\* The fallback with its threshold off by one: candidates.length <= 3.
NeedsGeocodingAtMost3(candidates) == Len(candidates) <= 3

\* Line 435: if (candidates.length < 3)
NeedsGeocoding(candidates) == Len(candidates) < 3

\* Step 3 that skips the candidates of the building cache.
EnrichCandidateNotCached(candidate, input) ==
  IF candidate.source = "cache" THEN candidate
  ELSE LET bearingCalc == calculateBearingAndDistance(UserCoordinates(input),
                                                      candidate.coordinates, input.heading)
       IN [candidate EXCEPT !.distance = bearingCalc.distance,
                            !.bearing = bearingCalc.bearing,
                            !.bearingDiff = bearingCalc.bearingDiff]

\* Step 3 (lines 455-465), for one candidate.
EnrichCandidate(candidate, input) ==
  LET bearingCalc == calculateBearingAndDistance(UserCoordinates(input),
                                                 candidate.coordinates, input.heading)
  IN [candidate EXCEPT !.distance = bearingCalc.distance,
                       !.bearing = bearingCalc.bearing,
                       !.bearingDiff = bearingCalc.bearingDiff]

\* Step 4 (lines 468-476), for one candidate.
ScoreCandidate(candidate) ==
  [candidate EXCEPT !.confidence =
     calculateConfidenceScore([distance |-> candidate.distance,
                               bearingDiff |-> candidate.bearingDiff,
                               source |-> candidate.source,
                               hasName |-> Truthy(candidate.name),
                               hasRating |-> Get(candidate.metadata, "rating") # Undefined])]

\* Steps 3 to 5: geometry, score, sort.
RankCandidates(candidates, input) ==
  SortByConfidence([i \in 1..Len(candidates) |->
                      ScoreCandidate(EnrichCandidate(candidates[i], input))])

\* The filter with confidence >= 30 in place of confidence > 30.
IsTopCandidateAtLeast30(c) == c.source # "cache" /\ c.confidence >= 3000

\* Lines 483-485: the candidates worth saving (confidence > 30).
IsTopCandidate(c) == c.source # "cache" /\ c.confidence > 3000

TopCandidates(candidates) == Slice0(SelectSeq(candidates, IsTopCandidate), 5)

\* What the two providers hold around the user: the places within the radius
\* and the address at the point.
Providers ==
  {[places |-> <<PlaceB, PlaceA>>, geocode |-> Some(GeocodeNominatim)],
   [places |-> <<PlaceC, PlaceA, PlaceB>>, geocode |-> Some(GeocodeGoogle)],
   [places |-> <<PlaceC, PlaceG, PlaceF, PlaceE, PlaceD, PlaceH, PlaceA>>,
    geocode |-> Some(GeocodeNominatim)]}

\* What an invocation has called so far (the candidates handed to
\* saveBuildingToCache, in call order; a count for the other calls).
NoCalls ==
  [getCachedBuildings |-> 0, findNearbyPlaces |-> 0, reverseGeocode |-> 0,
   saveBuildingToCache |-> <<>>, cacheIdentifyResults |-> 0,
   findNearbyPlacesRadius |-> Undefined]

\* An invocation: pc names the call it awaits; cachedResults is what
\* getCachedIdentifyResults returned; saving holds the buildings of the saves
\* it started; failed names the calls that failed under it.
IdleRequest ==
  [pc |-> "idle",
   input |-> [latitude |-> 0, longitude |-> 0, heading |-> Undefined,
              searchRadius |-> Undefined],
   cachedResults |-> None,
   candidates |-> <<>>,
   saving |-> <<>>,
   calls |-> NoCalls,
   failed |-> {},
   outcome |-> [status |-> "pending", candidates |-> <<>>]]

\* return { candidates, searchRadius, searchCenter, heading, timestamp }
ReturnCandidates(q, candidates) ==
  [q EXCEPT !.pc = "done",
            !.outcome = [status |-> "returned", candidates |-> candidates]]

\* A catch that swallows the error and returns what has been gathered.
ThrowSwallowed(q, call) ==
  ReturnCandidates([q EXCEPT !.failed = @ \cup {call}], q.candidates)

\* catch (error) { ...; throw error } (lines 509-517)
Throw(q, call) ==
  [q EXCEPT !.pc = "done",
            !.failed = @ \cup {call},
            !.outcome = [status |-> "threw", candidates |-> <<>>]]

\* identifyBuilding without the early return of lines 389-400.
OnCachedResultsIgnoringHit(q, cachedResults) ==
  [q EXCEPT !.cachedResults = cachedResults,
            !.pc = "getCachedBuildings",
            !.calls.getCachedBuildings = @ + 1]

\* Lines 387-408: after getCachedIdentifyResults has answered.
OnCachedResults(q, cachedResults) ==
  IF cachedResults # None
  THEN ReturnCandidates([q EXCEPT !.cachedResults = cachedResults], cachedResults[1])
  ELSE [q EXCEPT !.pc = "getCachedBuildings",
                 !.calls.getCachedBuildings = @ + 1]

\* Lines 406-411: after getCachedBuildings has answered; findNearbyPlaces is
\* called with the radius of line 374.
OnCachedBuildings(q, cachedBuildings) ==
  [q EXCEPT !.candidates = cachedBuildings,
            !.pc = "findNearbyPlaces",
            !.calls.findNearbyPlaces = @ + 1,
            !.calls.findNearbyPlacesRadius = SearchRadius(q.input)]

\* Lines 454-489: geometry, scores, sort, and the saves started in parallel.
StartPersist(q, now) ==
  LET ranked == RankCandidates(q.candidates, q.input)
      topCandidates == TopCandidates(ranked)
  IN [q EXCEPT !.candidates = ranked,
               !.saving = [i \in 1..Len(topCandidates) |-> BuildingData(topCandidates[i], now)],
               !.calls.saveBuildingToCache = topCandidates,
               !.pc = "saveBuildingToCache"]

\* Lines 411-437: after findNearbyPlaces has answered.
OnNearbyPlaces(q, nearbyPlaces, now) ==
  LET gathered == [q EXCEPT !.candidates =
                     @ \o [i \in 1..Len(nearbyPlaces) |-> PlaceToCandidate(nearbyPlaces[i])]]
  IN IF NeedsGeocoding(gathered.candidates)
     THEN [gathered EXCEPT !.pc = "reverseGeocode", !.calls.reverseGeocode = @ + 1]
     ELSE StartPersist(gathered, now)

\* Lines 437-452: after reverseGeocode has answered.
OnGeocodeResult(q, geocodeResult, now) ==
  StartPersist([q EXCEPT !.candidates =
                  IF geocodeResult # None
                  THEN @ \o <<GeocodeToCandidate(geocodeResult[1])>>
                  ELSE @],
               now)

\* Promise.all in place of Promise.allSettled: a rejected save throws.
OnSavesSettledThrowing(q, rejected) ==
  IF rejected # {}
  THEN Throw(q, "saveBuildingToCache")
  ELSE [q EXCEPT !.pc = "cacheIdentifyResults", !.calls.cacheIdentifyResults = @ + 1]

\* Lines 487-492: after Promise.allSettled; a rejected save changes nothing.
OnSavesSettled(q, rejected) ==
  [q EXCEPT !.pc = "cacheIdentifyResults",
            !.failed = @ \cup (IF rejected = {} THEN {} ELSE {"saveBuildingToCache"}),
            !.calls.cacheIdentifyResults = @ + 1]

\* The saves of one invocation, each the whole of saveBuildingToDatabase, in
\* array order; the saves in `rejected` throw before they write.  The
\* candidates of one invocation carry pairwise distinct (externalId, source)
\* here, so the order of its parallel saves shows only in the ids handed out;
\* saves of one key that overlap are the subject of SpecSave.
RECURSIVE ApplySaves(_, _, _, _, _)
ApplySaves(db, buildings, rejected, i, now) ==
  IF i > Len(buildings) THEN db
  ELSE IF i \in rejected THEN ApplySaves(db, buildings, rejected, i + 1, now)
  ELSE LET building == buildings[i]
           answer == IF Truthy(building.externalId)
                     THEN CHOOSE a \in getBuildingByExternalId(db.rows, building.externalId,
                                                               building.source) : TRUE
                     ELSE None
           written == WriteBuilding(db.rows, db.nextId, ExistingId(answer), building, now)
       IN ApplySaves([rows |-> written.rows, nextId |-> written.nextId],
                     buildings, rejected, i + 1, now)

\* A call of saveBuildingToDatabase: pc names the query it awaits; existingId
\* is the local of line 22; outcome is how the promise settled.
IdleTask ==
  [pc |-> "idle", building |-> CHOOSE b \in SaveInputs : TRUE, existingId |-> None,
   outcome |-> [status |-> "pending", id |-> Undefined]]

\* Lines 18-23: the connection is taken; the existence check is awaited when
\* the building has an externalId.
BeginSave(building) ==
  [IdleTask EXCEPT !.building = building,
                   !.pc = IF Truthy(building.externalId)
                          THEN "getBuildingByExternalId" ELSE "query"]

\* Line 25: existingId = existing?.id || null
OnExisting(k, answer) == [k EXCEPT !.existingId = ExistingId(answer), !.pc = "query"]

\* Lines 91-98: return result.rows[0]?.id
OnWritten(k, id) == [k EXCEPT !.pc = "done", !.outcome = [status |-> "resolved", id |-> id]]

\* Lines 99-107: the error is logged and rethrown, the connection released.
OnSaveError(k) == [k EXCEPT !.pc = "done", !.outcome = [status |-> "rejected", id |-> Undefined]]

\* A call of findNearbyPlaces or reverseGeocode: pc names what it awaits;
\* result is the local it will return; queried lists the provider requests it
\* made, in order; failed names the awaited calls that failed under it; cache
\* tells how its redis.get ended.
IdleAdapter ==
  [pc |-> "idle", fn |-> "none", coordinates |-> Point(0, 0), radius |-> Undefined,
   cache |-> "unread", result |-> None, queried |-> <<>>, failed |-> {},
   outcome |-> [status |-> "pending", value |-> None]]

\* Two calls of calculateConfidenceScore to compare: the factors and the scores.
\* A call of a function of bearing.service: fn, its arguments and what it
\* returned (for a function of two arguments, also with the two exchanged).
IdleCalc ==
  [pc |-> "idle",
   a |-> [distance |-> 0, bearingDiff |-> Undefined, source |-> "cache",
          hasName |-> FALSE, hasRating |-> FALSE],
   b |-> [distance |-> 0, bearingDiff |-> Undefined, source |-> "cache",
          hasName |-> FALSE, hasRating |-> FALSE],
   scoreA |-> Undefined, scoreB |-> Undefined,
   fn |-> "none", args |-> <<>>, results |-> <<>>]

(***************************************************************************)
(* Actions of identifyBuilding: one per awaited call that completes        *)
(***************************************************************************)
OtherUnchanged == UNCHANGED <<clock, rows, nextId, resultCache, invocations, task, provider, adapter, calc, http, health, hook, pool, proc>>

\* identifyBuilding(input) is called: lines 366-385.
StartIdentify(r, input) ==
  /\ req[r].pc \in {"idle", "done"}
  /\ invocations < MaxInvocations
  /\ invocations' = invocations + 1
  /\ req' = [req EXCEPT ![r] = [IdleRequest EXCEPT !.pc = "getCachedIdentifyResults",
                                                   !.input = input]]
  /\ UNCHANGED <<clock, rows, nextId, resultCache, task, provider, adapter, calc, http, health, hook, pool, proc>>

\* getCachedIdentifyResults returns what Redis holds.
ResultCacheAnswers(r) ==
  /\ req[r].pc = "getCachedIdentifyResults"
  /\ req' = [req EXCEPT ![r] =
       OnCachedResults(@, getCachedIdentifyResults(resultCache, UserCoordinates(@.input),
                                                   @.input.heading, SearchRadius(@.input),
                                                   clock.now))]
  /\ OtherUnchanged

\* getCachedIdentifyResults without its catch: the error of redis.get reaches
\* identifyBuilding.
ResultCacheReadThrows(r) ==
  /\ req[r].pc = "getCachedIdentifyResults"
  /\ req' = [req EXCEPT ![r] = Throw(@, "getCachedIdentifyResults")]
  /\ OtherUnchanged

\* redis.get throws: getCachedIdentifyResults logs and returns null (184-192).
ResultCacheReadFails(r) ==
  /\ req[r].pc = "getCachedIdentifyResults"
  /\ req' = [req EXCEPT ![r] =
       OnCachedResults([@ EXCEPT !.failed = @ \cup {"getCachedIdentifyResults"}], None)]
  /\ OtherUnchanged

\* getCachedBuildings returns the rows near the user.
CachedBuildingsAnswer(r) ==
  /\ req[r].pc = "getCachedBuildings"
  /\ req' = [req EXCEPT ![r] =
       OnCachedBuildings(@, getCachedBuildings(rows, UserCoordinates(@.input),
                                               SearchRadius(@.input), clock.now))]
  /\ OtherUnchanged

\* findBuildingsNearLocation throws: getCachedBuildings returns [] (81-88).
CachedBuildingsReadFails(r) ==
  /\ req[r].pc = "getCachedBuildings"
  /\ req' = [req EXCEPT ![r] =
       OnCachedBuildings([@ EXCEPT !.failed = @ \cup {"getCachedBuildings"}], <<>>)]
  /\ OtherUnchanged

\* findNearbyPlaces resolves: with the provider's places, or with [] when the
\* adapter has degraded a provider failure to an empty list.
PlacesAnswer(r, nearbyPlaces) ==
  /\ req[r].pc = "findNearbyPlaces"
  /\ nearbyPlaces \in {provider.places, <<>>}
  /\ req' = [req EXCEPT ![r] = OnNearbyPlaces(@, nearbyPlaces, clock.now)]
  /\ OtherUnchanged

\* The promise of findNearbyPlaces rejects (as when the places service is
\* replaced by one that fails): line 411 throws into the catch of line 509.
PlacesRejects(r) ==
  /\ req[r].pc = "findNearbyPlaces"
  /\ req' = [req EXCEPT ![r] = Throw(@, "findNearbyPlaces")]
  /\ OtherUnchanged

\* reverseGeocode resolves: with the provider's result, or with null when both
\* providers failed.
GeocodeAnswers(r, geocodeResult) ==
  /\ req[r].pc = "reverseGeocode"
  /\ geocodeResult \in {provider.geocode, None}
  /\ req' = [req EXCEPT ![r] = OnGeocodeResult(@, geocodeResult, clock.now)]
  /\ OtherUnchanged

\* The promise of reverseGeocode rejects: line 437 throws into the catch.
GeocodeRejects(r) ==
  /\ req[r].pc = "reverseGeocode"
  /\ req' = [req EXCEPT ![r] = Throw(@, "reverseGeocode")]
  /\ OtherUnchanged

\* Promise.allSettled resolves: every save has written or has thrown.
SavesSettleWith(r, rejected) ==
  /\ req[r].pc = "saveBuildingToCache"
  /\ rejected \subseteq 1..Len(req[r].saving)
  /\ LET db == ApplySaves([rows |-> rows, nextId |-> nextId], req[r].saving, rejected,
                          1, clock.now)
     IN /\ rows' = db.rows
        /\ nextId' = db.nextId
  /\ req' = [req EXCEPT ![r] = OnSavesSettled(@, rejected)]
  /\ UNCHANGED <<clock, resultCache, invocations, task, provider, adapter, calc, http, health, hook, pool, proc>>

SavesSettle(r) ==
  \E rejected \in SaveFailures(Len(req[r].saving)) : SavesSettleWith(r, rejected)

\* cacheIdentifyResults has written the list to Redis; identifyBuilding returns.
ResultCacheWritten(r) ==
  /\ req[r].pc = "cacheIdentifyResults"
  /\ resultCache' = cacheIdentifyResults(resultCache, UserCoordinates(req[r].input),
                                         req[r].input.heading, SearchRadius(req[r].input),
                                         req[r].candidates, clock.now)
  /\ req' = [req EXCEPT ![r] = ReturnCandidates(@, @.candidates)]
  /\ UNCHANGED <<clock, rows, nextId, invocations, task, provider, adapter, calc, http, health, hook, pool, proc>>

\* redis.setex throws: cacheIdentifyResults logs and returns (225-233).
ResultCacheWriteFails(r) ==
  /\ req[r].pc = "cacheIdentifyResults"
  /\ req' = [req EXCEPT ![r] =
       ReturnCandidates([@ EXCEPT !.failed = @ \cup {"cacheIdentifyResults"}], @.candidates)]
  /\ OtherUnchanged

\* Time passes; Redis drops what has expired.  The unit is the hour and every
\* awaited call ends within seconds (the adapters' timeout of 5000 ms, the
\* pool's connectionTimeoutMillis of 10000), so the clock moves between calls
\* of identifyBuilding and saveBuildingToDatabase, not within one.
Tick(step) ==
  /\ clock.ticks < MaxTicks
  /\ \A r \in Requests : req[r].pc \in {"idle", "done"}
  /\ \A t \in SaveTasks : task[t].pc \in {"idle", "done"}
  /\ adapter.pc \in {"idle", "done"}
  /\ clock' = [now |-> clock.now + step, ticks |-> clock.ticks + 1]
  /\ resultCache' = RedisExpire(resultCache, clock.now + step)
  /\ UNCHANGED <<rows, nextId, req, invocations, task, provider, adapter, calc, http, health, hook, pool, proc>>

\* Time passes between two calls of identifyBuilding.
TickBetweenCalls(step) ==
  /\ invocations \in 1..MaxInvocations - 1
  /\ Tick(step)

(***************************************************************************)
(* Actions of saveBuildingToDatabase: one per awaited query that completes *)
(***************************************************************************)
TaskOtherUnchanged == UNCHANGED <<clock, resultCache, req, invocations, provider, adapter, calc, http, health, hook, pool, proc>>

\* saveBuildingToDatabase(building) is called.
SaveBegin(t, building) ==
  /\ task[t].pc = "idle"
  /\ \A earlier \in SaveTasks : earlier < t => task[earlier].pc # "idle"
  /\ task' = [task EXCEPT ![t] = BeginSave(building)]
  /\ UNCHANGED <<rows, nextId>>
  /\ TaskOtherUnchanged

\* The SELECT of getBuildingByExternalId answers from the table as it is now.
SaveLookup(t) ==
  /\ task[t].pc = "getBuildingByExternalId"
  /\ \E answer \in getBuildingByExternalId(rows, task[t].building.externalId,
                                             task[t].building.source) :
        task' = [task EXCEPT ![t] = OnExisting(@, answer)]
  /\ UNCHANGED <<rows, nextId>>
  /\ TaskOtherUnchanged

\* The SELECT fails: getBuildingByExternalId rethrows, and so does the save.
SaveLookupFails(t) ==
  /\ task[t].pc = "getBuildingByExternalId"
  /\ task' = [task EXCEPT ![t] = OnSaveError(@)]
  /\ UNCHANGED <<rows, nextId>>
  /\ TaskOtherUnchanged

\* The UPDATE or the INSERT runs (one statement, atomic in the database).
SaveWrite(t) ==
  /\ task[t].pc = "query"
  /\ LET written == WriteBuilding(rows, nextId, task[t].existingId, task[t].building,
                                  clock.now)
     IN /\ rows' = written.rows
        /\ nextId' = written.nextId
        /\ task' = [task EXCEPT ![t] = OnWritten(@, written.id)]
  /\ TaskOtherUnchanged

\* The UPDATE or the INSERT fails.
SaveWriteFails(t) ==
  /\ task[t].pc = "query"
  /\ task' = [task EXCEPT ![t] = OnSaveError(@)]
  /\ UNCHANGED <<rows, nextId>>
  /\ TaskOtherUnchanged

\* A save is called while no other save is in flight.
SaveBeginAlone(t, building) ==
  /\ \A other \in SaveTasks : task[other].pc \in {"idle", "done"}
  /\ SaveBegin(t, building)

(***************************************************************************)
(* places.service: findNearbyPlaces                                        *)
(***************************************************************************)
BUILDING_TYPES == {"establishment", "point_of_interest", "premise", "street_address"}

\* getCacheKey of places.service (lines 35-40).
getPlacesCacheKey(lat, lon, radius) == <<"places:", ToFixed5(lat), ToFixed5(lon), radius>>

\* The filter of lines 93-99.
IsBuildingPlace(place) ==
  /\ place.types \cap BUILDING_TYPES # {}
  /\ place.geometry # None

\* The map of lines 100-128 (of metadata, the businessStatus key).
ToPlaceResult(place) ==
  [placeId |-> place.place_id,
   name |-> place.name,
   address |-> IF Truthy(place.vicinity) THEN place.vicinity
               ELSE IF Truthy(place.formatted_address) THEN place.formatted_address
               ELSE "",
   coordinates |-> place.geometry[1],
   rating |-> place.rating,
   userRatingsTotal |-> place.user_ratings_total,
   metadata |-> [businessStatus |-> place.business_status]]

\* Lines 89-128: the response's results as PlaceResult[].
ToPlaceResults(results) ==
  LET places == SelectSeq(results, IsBuildingPlace)
  IN [i \in 1..Len(places) |-> ToPlaceResult(places[i])]

\* JSON.stringify(placeResults) and JSON.parse(cached) as PlaceResult[].
StringifyPlaces(placeResults) ==
  [json |-> [i \in 1..Len(placeResults) |->
               [placeResults[i] EXCEPT !.metadata = StripMetadata(@)]]]
ParsePlaces(text) == text.json

\* A call returns value to its caller.
AdapterReturn(a, value) ==
  [a EXCEPT !.pc = "done", !.outcome = [status |-> "returned", value |-> value]]

PlacesCatchRethrows(a, what) ==
  [a EXCEPT !.pc = "done", !.failed = @ \cup {what},
            !.outcome = [status |-> "threw", value |-> <<>>]]

\* The catch of lines 148-157: whatever was thrown under the try, return [].
PlacesCatch(a, what) ==
  AdapterReturn([a EXCEPT !.failed = @ \cup {what}], <<>>)

AdapterOtherUnchanged == UNCHANGED <<rows, nextId, req, task, provider, calc, http, health, hook, pool, proc>>

\* findNearbyPlaces(coordinates, radius) is called: lines 48-56.
PlacesCall(coordinates, radius) ==
  /\ adapter.pc \in {"idle", "done"}
  /\ invocations < MaxInvocations
  /\ invocations' = invocations + 1
  /\ adapter' = [IdleAdapter EXCEPT
                   !.pc = "redis.get", !.fn = "findNearbyPlaces",
                   !.coordinates = coordinates,
                   !.radius = IF radius = Undefined THEN SEARCH_RADIUS_METERS ELSE radius]
  /\ UNCHANGED <<clock, resultCache>>
  /\ AdapterOtherUnchanged

\* redis.get answers: lines 56-60, a hit returns the parsed list.
PlacesCacheAnswers ==
  /\ adapter.fn = "findNearbyPlaces" /\ adapter.pc = "redis.get"
  /\ LET cacheKey == getPlacesCacheKey(adapter.coordinates.latitude,
                                       adapter.coordinates.longitude, adapter.radius)
         cached == RedisGet(resultCache, cacheKey, clock.now)
     IN adapter' = IF cached # None
                   THEN AdapterReturn([adapter EXCEPT !.cache = "hit"], ParsePlaces(cached[1]))
                   ELSE [adapter EXCEPT !.pc = "axios.get", !.cache = "miss"]
  /\ UNCHANGED <<clock, resultCache, invocations>>
  /\ AdapterOtherUnchanged

PlacesCacheReadFails ==
  /\ adapter.fn = "findNearbyPlaces" /\ adapter.pc = "redis.get"
  /\ adapter' = PlacesCatch([adapter EXCEPT !.cache = "failed"], "redis.get")
  /\ UNCHANGED <<clock, resultCache, invocations>>
  /\ AdapterOtherUnchanged

\* A provider step without the status check of lines 78-92.
PlacesProviderRespondsAnyStatus(response) ==
  /\ adapter.fn = "findNearbyPlaces" /\ adapter.pc = "axios.get"
  /\ adapter' = [adapter EXCEPT
                   !.queried = Append(@, [provider |-> "google_places",
                                          status |-> response.status,
                                          results |-> response.results]),
                   !.pc = "redis.setex",
                   !.result = ToPlaceResults(response.results)]
  /\ UNCHANGED <<clock, resultCache, invocations>>
  /\ AdapterOtherUnchanged

\* axios.get answers with HTTP 200: lines 75-142.
PlacesProviderResponds(response) ==
  /\ adapter.fn = "findNearbyPlaces" /\ adapter.pc = "axios.get"
  /\ LET asked == [adapter EXCEPT
                     !.queried = Append(@, [provider |-> "google_places",
                                            status |-> response.status,
                                            results |-> response.results])]
     IN adapter' = IF response.status # "OK" /\ response.status # "ZERO_RESULTS"
                   THEN PlacesCatch(asked, "status")
                   ELSE [asked EXCEPT !.pc = "redis.setex",
                                      !.result = ToPlaceResults(response.results)]
  /\ UNCHANGED <<clock, resultCache, invocations>>
  /\ AdapterOtherUnchanged

\* axios.get rejects: an HTTP error status, a network error, the timeout of
\* 5000 ms.
PlacesProviderFails ==
  /\ adapter.fn = "findNearbyPlaces" /\ adapter.pc = "axios.get"
  /\ adapter' = PlacesCatch([adapter EXCEPT
                               !.queried = Append(@, [provider |-> "google_places",
                                                      status |-> "rejected",
                                                      results |-> <<>>])],
                            "axios.get")
  /\ UNCHANGED <<clock, resultCache, invocations>>
  /\ AdapterOtherUnchanged

\* redis.setex answers: lines 144-147.
PlacesCacheWritten ==
  /\ adapter.fn = "findNearbyPlaces" /\ adapter.pc = "redis.setex"
  /\ resultCache' = RedisSetex(resultCache,
                               getPlacesCacheKey(adapter.coordinates.latitude,
                                                 adapter.coordinates.longitude,
                                                 adapter.radius),
                               REDIS_TTL_PLACES, StringifyPlaces(adapter.result), clock.now)
  /\ adapter' = AdapterReturn(adapter, adapter.result)
  /\ UNCHANGED <<clock, invocations>>
  /\ AdapterOtherUnchanged

PlacesCacheWriteFails ==
  /\ adapter.fn = "findNearbyPlaces" /\ adapter.pc = "redis.setex"
  /\ adapter' = PlacesCatch(adapter, "redis.setex")
  /\ UNCHANGED <<clock, resultCache, invocations>>
  /\ AdapterOtherUnchanged

(***************************************************************************)
(* geocoding.service: reverseGeocode                                       *)
(***************************************************************************)
\* toFixed(6) of a coordinate held in micro-degrees: the sign and the digits.
ToFixed6(v) == <<v < 0, Abs(v)>>

\* getCacheKey of geocoding.service (lines 24-29).
getGeocodeCacheKey(lat, lon) == <<"geocode:", ToFixed6(lat), ToFixed6(lon)>>

\* geocodeWithGoogle (lines 51-86), when axios.get answers (of metadata, the
\* locationType key).
geocodeWithGoogle(response) ==
  IF response.status # "OK" \/ Len(response.results) = 0 THEN None
  ELSE LET result == response.results[1]
       IN Some([name |-> result.premise,
                address |-> result.formatted_address,
                coordinates |-> result.location,
                placeId |-> result.place_id,
                source |-> "google_geocoding",
                metadata |-> [locationType |-> result.location_type]])

\* geocodeWithNominatim (lines 126-164), when axios.get answers (of metadata,
\* the osmId key).
geocodeWithNominatim(response) ==
  IF response = None \/ response[1].error THEN None
  ELSE LET data == response[1]
       IN Some([name |-> IF Truthy(data.building) THEN data.building ELSE UndefinedStr,
                address |-> data.display_name,
                coordinates |-> data.location,
                placeId |-> data.place_id,
                source |-> "nominatim",
                metadata |-> [osmId |-> data.osm_id]])

\* JSON.stringify(result) and JSON.parse(cached) as GeocodingResult.
StringifyGeocode(result) ==
  LET kept == {k \in DOMAIN result : ~(k = "name" /\ result[k] = UndefinedStr)}
  IN [json |-> [k \in kept |-> IF k = "metadata" THEN StripMetadata(result[k])
                               ELSE result[k]]]
ParseGeocode(text) == text.json

\* The catch of lines 211-217: whatever was thrown under the try, return null.
GeocodeCatch(a, what) ==
  AdapterReturn([a EXCEPT !.failed = @ \cup {what}], None)

\* Lines 194-210 once a provider function has returned result: ask Nominatim
\* after a null of Google, write the cache for a result, return a null.
AfterProvider(a, providerName, result) ==
  LET asked == [a EXCEPT !.queried = Append(@, [provider |-> providerName,
                                                result |-> result]),
                         !.result = result]
  IN IF result # None THEN [asked EXCEPT !.pc = "redis.setex"]
     ELSE IF providerName = "google_geocoding" THEN [asked EXCEPT !.pc = "nominatim"]
     ELSE AdapterReturn(asked, None)

\* reverseGeocode(coordinates) is called: lines 184-188.
GeocodeCall(coordinates) ==
  /\ adapter.pc \in {"idle", "done"}
  /\ invocations < MaxInvocations
  /\ invocations' = invocations + 1
  /\ adapter' = [IdleAdapter EXCEPT !.pc = "redis.get", !.fn = "reverseGeocode",
                                    !.coordinates = coordinates]
  /\ UNCHANGED <<clock, resultCache>>
  /\ AdapterOtherUnchanged

\* redis.get answers: lines 188-192, a hit returns the parsed result.
GeocodeCacheAnswers ==
  /\ adapter.fn = "reverseGeocode" /\ adapter.pc = "redis.get"
  /\ LET cacheKey == getGeocodeCacheKey(adapter.coordinates.latitude,
                                        adapter.coordinates.longitude)
         cached == RedisGet(resultCache, cacheKey, clock.now)
     IN adapter' = IF cached # None
                   THEN AdapterReturn([adapter EXCEPT !.cache = "hit"],
                                      Some(ParseGeocode(cached[1])))
                   ELSE [adapter EXCEPT !.pc = "google", !.cache = "miss"]
  /\ UNCHANGED <<clock, resultCache, invocations>>
  /\ AdapterOtherUnchanged

GeocodeCacheReadFails ==
  /\ adapter.fn = "reverseGeocode" /\ adapter.pc = "redis.get"
  /\ adapter' = GeocodeCatch([adapter EXCEPT !.cache = "failed"], "redis.get")
  /\ UNCHANGED <<clock, resultCache, invocations>>
  /\ AdapterOtherUnchanged

\* geocodeWithGoogle returns after its axios.get answered: line 195.
GoogleResponds(response) ==
  /\ adapter.fn = "reverseGeocode" /\ adapter.pc = "google"
  /\ adapter' = AfterProvider(adapter, "google_geocoding", geocodeWithGoogle(response))
  /\ UNCHANGED <<clock, resultCache, invocations>>
  /\ AdapterOtherUnchanged

\* geocodeWithGoogle returns null from its catch (lines 87-96).
GoogleFails ==
  /\ adapter.fn = "reverseGeocode" /\ adapter.pc = "google"
  /\ adapter' = AfterProvider(adapter, "google_geocoding", None)
  /\ UNCHANGED <<clock, resultCache, invocations>>
  /\ AdapterOtherUnchanged

\* geocodeWithNominatim returns after its axios.get answered: line 200.
NominatimResponds(response) ==
  /\ adapter.fn = "reverseGeocode" /\ adapter.pc = "nominatim"
  /\ adapter' = AfterProvider(adapter, "nominatim", geocodeWithNominatim(response))
  /\ UNCHANGED <<clock, resultCache, invocations>>
  /\ AdapterOtherUnchanged

\* geocodeWithNominatim returns null from its catch (lines 165-174).
NominatimFails ==
  /\ adapter.fn = "reverseGeocode" /\ adapter.pc = "nominatim"
  /\ adapter' = AfterProvider(adapter, "nominatim", None)
  /\ UNCHANGED <<clock, resultCache, invocations>>
  /\ AdapterOtherUnchanged

\* redis.setex answers: lines 205-210.
GeocodeCacheWritten ==
  /\ adapter.fn = "reverseGeocode" /\ adapter.pc = "redis.setex"
  /\ resultCache' = RedisSetex(resultCache,
                               getGeocodeCacheKey(adapter.coordinates.latitude,
                                                  adapter.coordinates.longitude),
                               REDIS_TTL_GEOCODING, StringifyGeocode(adapter.result[1]),
                               clock.now)
  /\ adapter' = AdapterReturn(adapter, adapter.result)
  /\ UNCHANGED <<clock, invocations>>
  /\ AdapterOtherUnchanged

GeocodeCacheWriteFails ==
  /\ adapter.fn = "reverseGeocode" /\ adapter.pc = "redis.setex"
  /\ adapter' = GeocodeCatch(adapter, "redis.setex")
  /\ UNCHANGED <<clock, resultCache, invocations>>
  /\ AdapterOtherUnchanged

(***************************************************************************)
(* scoring.service: calculateConfidenceScore applied twice                 *)
(***************************************************************************)
CalcOtherUnchanged ==
  UNCHANGED <<clock, rows, nextId, resultCache, req, invocations, task, provider, adapter, http, health, hook, pool, proc>>

\* calculateConfidenceScore(factors).
ScoreFactors(factors) ==
  /\ calc.pc = "idle"
  /\ calc' = [calc EXCEPT !.pc = "first", !.a = factors, !.b = factors,
                          !.scoreA = calculateConfidenceScore(factors)]
  /\ CalcOtherUnchanged

\* calculateConfidenceScore({ ...factors, distance }).
ScoreAtDistance(distance) ==
  /\ calc.pc = "first"
  /\ LET factors == [calc.a EXCEPT !.distance = distance]
     IN calc' = [calc EXCEPT !.pc = "done", !.b = factors,
                             !.scoreB = calculateConfidenceScore(factors)]
  /\ CalcOtherUnchanged

\* calculateConfidenceScore({ ...factors, bearingDiff }).
ScoreAtBearingDiff(bearingDiff) ==
  /\ calc.pc = "first"
  /\ LET factors == [calc.a EXCEPT !.bearingDiff = bearingDiff]
     IN calc' = [calc EXCEPT !.pc = "done", !.b = factors,
                             !.scoreB = calculateConfidenceScore(factors)]
  /\ CalcOtherUnchanged

\* calculateConfidenceScore({ ...factors, source }).
ScoreForSource(source) ==
  /\ calc.pc = "first"
  /\ LET factors == [calc.a EXCEPT !.source = source]
     IN calc' = [calc EXCEPT !.pc = "done", !.b = factors,
                             !.scoreB = calculateConfidenceScore(factors)]
  /\ CalcOtherUnchanged

(***************************************************************************)
(* bearing.service: one call of a function                                 *)
(***************************************************************************)
CallNormalizeBearing(bearing) ==
  /\ calc.pc = "idle"
  /\ calc' = [calc EXCEPT !.pc = "done", !.fn = "normalizeBearing", !.args = <<bearing>>,
                          !.results = <<normalizeBearingFloat(bearing)>>]
  /\ CalcOtherUnchanged

CallBearingDifference(bearing1, bearing2) ==
  /\ calc.pc = "idle"
  /\ calc' = [calc EXCEPT !.pc = "done", !.fn = "calculateBearingDifference",
                          !.args = <<bearing1, bearing2>>,
                          !.results = <<calculateBearingDifference(bearing1, bearing2),
                                        calculateBearingDifference(bearing2, bearing1)>>]
  /\ CalcOtherUnchanged

CallDistance(from, to) ==
  /\ calc.pc = "idle"
  /\ calc' = [calc EXCEPT !.pc = "done", !.fn = "calculateDistance",
                          !.args = <<from, to>>,
                          !.results = <<calculateDistance(from, to),
                                        calculateDistance(to, from)>>]
  /\ CalcOtherUnchanged

(***************************************************************************)
(* POST /api/identify: validateRequest, then identifyBuildingController    *)
(***************************************************************************)
\* A field of the JSON body: a number, a string, or absent.
Num(n) == [kind |-> "number", value |-> n]
Str == [kind |-> "string", value |-> 0]
Absent == [kind |-> "undefined", value |-> 0]

\* The limits of IdentifyRequestSchema, in the units of the model: millionths
\* of a degree for coordinates, tenths of a degree for the heading.
MaxLatitude == 90 * 1000000
MaxLongitude == 180 * 1000000
MaxHeading == 360 * 10
DefaultSearchRadius == 100

Issue(path, code) == [path |-> path, code |-> code]

\* z.number().min(lo).max(hi): the type first, then both limits, inclusive.
NumberIssues(path, v, lo, hi) ==
  IF v.kind # "number" THEN {Issue(path, "invalid_type")}
  ELSE {Issue(path, "too_small") : x \in {y \in {v.value} : y < lo}}
       \cup {Issue(path, "too_big") : x \in {y \in {v.value} : y > hi}}

LatitudeIssues(v) == NumberIssues("latitude", v, -MaxLatitude, MaxLatitude)

LongitudeIssues(v) == NumberIssues("longitude", v, -MaxLongitude, MaxLongitude)

\* .optional(): an absent heading passes.
HeadingIssues(v) ==
  IF v.kind = "undefined" THEN {} ELSE NumberIssues("heading", v, 0, MaxHeading)

\* A schema whose radius is only required to be non-negative.
SearchRadiusIssuesNonNegative(v) ==
  IF v.kind = "undefined" THEN {}
  ELSE IF v.kind # "number" THEN {Issue("searchRadius", "invalid_type")}
  ELSE IF v.value < 0 THEN {Issue("searchRadius", "too_small")} ELSE {}

\* .positive().optional().default(100).
SearchRadiusIssues(v) ==
  IF v.kind = "undefined" THEN {}
  ELSE IF v.kind # "number" THEN {Issue("searchRadius", "invalid_type")}
  ELSE IF v.value <= 0 THEN {Issue("searchRadius", "too_small")} ELSE {}

\* The issues of the ZodError that parseAsync throws; none when it resolves.
IdentifyRequestIssues(body) ==
  LatitudeIssues(body.latitude) \cup LongitudeIssues(body.longitude)
    \cup HeadingIssues(body.heading) \cup SearchRadiusIssues(body.searchRadius)

\* A schema whose default radius is the one of the mobile configuration.
ParseIdentifyRequestMobileDefault(body) ==
  [latitude |-> body.latitude.value,
   longitude |-> body.longitude.value,
   heading |-> IF body.heading.kind = "undefined" THEN Undefined ELSE body.heading.value,
   searchRadius |-> IF body.searchRadius.kind = "undefined" THEN DefaultSearchRadius \div 2
                    ELSE body.searchRadius.value]

\* What parseAsync resolves to for a body without issues.
ParseIdentifyRequest(body) ==
  [latitude |-> body.latitude.value,
   longitude |-> body.longitude.value,
   heading |-> IF body.heading.kind = "undefined" THEN Undefined ELSE body.heading.value,
   searchRadius |-> IF body.searchRadius.kind = "undefined" THEN DefaultSearchRadius
                    ELSE body.searchRadius.value]

\* The bodies sent: valid ones at the origin, and bodies that are invalid in
\* one field, or in all of them.
ValidBodies ==
  [latitude : {Num(0)}, longitude : {Num(0)},
   heading : {Absent, Num(900), Num(MaxHeading)}, searchRadius : {Absent, Num(50)}]

InvalidFields ==
  [latitude |-> {Num(MaxLatitude + 1), Num(-MaxLatitude - 1), Str, Absent},
   longitude |-> {Num(MaxLongitude + 1), Num(-MaxLongitude - 1), Absent},
   heading |-> {Num(-1), Num(MaxHeading + 1), Str},
   searchRadius |-> {Num(0), Num(-5), Str}]

Bodies ==
  ValidBodies
    \cup {[latitude |-> Str, longitude |-> Absent, heading |-> Num(-1),
           searchRadius |-> Num(0)]}
    \cup UNION {{[[latitude |-> Num(0), longitude |-> Num(0), heading |-> Absent,
                   searchRadius |-> Absent] EXCEPT ![f] = v] : v \in InvalidFields[f]}
                : f \in DOMAIN InvalidFields}

\* One exchange: pc is the handler that holds it; input is the validated body;
\* status, code and details are the response; searchRadius is query.searchRadius
\* of the 200 response.
IdleHttp ==
  [pc |-> "idle",
   body |-> [latitude |-> Absent, longitude |-> Absent, heading |-> Absent,
             searchRadius |-> Absent],
   input |-> IdleRequest.input,
   status |-> 0, code |-> "", details |-> {}, searchRadius |-> Undefined]

HttpOtherUnchanged ==
  UNCHANGED <<clock, rows, nextId, resultCache, req, invocations, task, provider,
              adapter, calc, health, hook, pool, proc>>

\* validateRequest({ body: IdentifyRequestSchema }), lines 16-53: a ZodError is
\* answered with 400 and next() is not called; otherwise the parsed body
\* replaces req.body and the controller is next.
ValidateRequest(body) ==
  /\ http.pc \in {"idle", "responded"}
  /\ LET issues == IdentifyRequestIssues(body)
     IN http' = IF issues # {}
                THEN [IdleHttp EXCEPT !.pc = "responded", !.body = body, !.status = 400,
                                      !.code = "VALIDATION_ERROR", !.details = issues]
                ELSE [IdleHttp EXCEPT !.pc = "identifyBuildingController", !.body = body,
                                      !.input = ParseIdentifyRequest(body)]
  /\ HttpOtherUnchanged

\* identifyBuildingController, lines 41-56: identifyBuilding is called with
\* the fields of the validated body.
ControllerCalls(r) ==
  /\ http.pc = "identifyBuildingController"
  /\ req[r].pc = "idle"
  /\ StartIdentify(r, http.input)

\* Lines 58-79: identifyBuilding has resolved; query.searchRadius is the
\* searchRadius of its result (database.service.ts 374, 497).
ControllerResponds(r) ==
  /\ http.pc = "identifyBuildingController"
  /\ req[r].pc = "done" /\ req[r].outcome.status = "returned"
  /\ http' = [http EXCEPT !.pc = "responded", !.status = 200,
                          !.searchRadius = SearchRadius(req[r].input)]
  /\ req' = [req EXCEPT ![r] = IdleRequest]
  /\ UNCHANGED <<clock, rows, nextId, resultCache, invocations, task, provider, adapter,
                 calc, health, hook, pool, proc>>

\* Lines 80-99: identifyBuilding has thrown; the error handler answers 500.
ControllerFails(r) ==
  /\ http.pc = "identifyBuildingController"
  /\ req[r].pc = "done" /\ req[r].outcome.status = "threw"
  /\ http' = [http EXCEPT !.pc = "responded", !.status = 500,
                          !.code = "IDENTIFICATION_ERROR"]
  /\ req' = [req EXCEPT ![r] = IdleRequest]
  /\ UNCHANGED <<clock, rows, nextId, resultCache, invocations, task, provider, adapter,
                 calc, health, hook, pool, proc>>

(***************************************************************************)
(* GET /health: healthCheck                                                *)
(***************************************************************************)
\* What a probe can do: answer as expected, answer something else, or throw.
ProbeResults == {"expected", "unexpected", "throws"}

\* Lines 135-142: the response as healthCheck first builds it.
InitialHealthResponse ==
  [status |-> "healthy", services |-> [postgres |-> "down", redis |-> "down"]]

\* probes records what each probe did; statusCode is 0 until the response is sent.
IdleHealth ==
  [pc |-> "idle", response |-> InitialHealthResponse,
   probes |-> [postgres |-> "none", redis |-> "none"], statusCode |-> 0]

\* Lines 145-161: after pool.query('SELECT 1 as health_check').
AfterPostgresQuery(response, result) ==
  IF result = "expected"
  THEN [response EXCEPT !.services.postgres = "up"]
  ELSE [response EXCEPT !.services.postgres = "down", !.status = "unhealthy"]

\* A Redis branch that decides the overall status by its own probe alone.
AfterRedisPingDecidesAlone(response, result) ==
  IF result = "expected"
  THEN [response EXCEPT !.services.redis = "up", !.status = "healthy"]
  ELSE [response EXCEPT !.services.redis = "down", !.status = "unhealthy"]

\* Lines 164-180: after redis.ping().
AfterRedisPing(response, result) ==
  IF result = "expected"
  THEN [response EXCEPT !.services.redis = "up"]
  ELSE [response EXCEPT !.services.redis = "down", !.status = "unhealthy"]

\* Line 183.
HealthStatusCode(response) == IF response.status = "healthy" THEN 200 ELSE 503

HealthOtherUnchanged ==
  UNCHANGED <<clock, rows, nextId, resultCache, req, invocations, task, provider,
              adapter, calc, http, hook, pool, proc>>

\* A GET /health arrives: lines 135-146, up to the await of pool.query.
HealthCheckStarts ==
  /\ health.pc \in {"idle", "responded"}
  /\ health' = [IdleHealth EXCEPT !.pc = "pool.query"]
  /\ HealthOtherUnchanged

\* pool.query settles: lines 146-165, up to the await of redis.ping.
PostgresProbeSettles(result) ==
  /\ health.pc = "pool.query"
  /\ health' = [health EXCEPT !.pc = "redis.ping",
                              !.probes.postgres = result,
                              !.response = AfterPostgresQuery(@, result)]
  /\ HealthOtherUnchanged

\* redis.ping settles: lines 165-184, the response is sent.
RedisProbeSettles(result) ==
  /\ health.pc = "redis.ping"
  /\ LET response == AfterRedisPing(health.response, result)
     IN health' = [health EXCEPT !.pc = "responded",
                                 !.probes.redis = result,
                                 !.response = response,
                                 !.statusCode = HealthStatusCode(response)]
  /\ HealthOtherUnchanged

(***************************************************************************)
(* useIdentifyBuilding                                                     *)
(***************************************************************************)
\* The inputs of the hook: latitude and longitude in tenths of a millionth of
\* a degree, heading in tenths of a degree, accuracy in metres; Undefined
\* stands for null.
BaseInputs ==
  [latitude |-> 10, longitude |-> 10, heading |-> 902, horizontalAccuracy |-> 5,
   enabled |-> TRUE]

\* The base, the base with the same signature (heading 90.4, latitude
\* 0.0000014, accuracy 15), with another signature (heading 90.6), and inputs
\* for which identifyBuilding returns early.
HookInputs ==
  {BaseInputs,
   [BaseInputs EXCEPT !.heading = 904],
   [BaseInputs EXCEPT !.heading = 906],
   [BaseInputs EXCEPT !.latitude = 14],
   [BaseInputs EXCEPT !.horizontalAccuracy = 15],
   [BaseInputs EXCEPT !.horizontalAccuracy = Undefined],
   [BaseInputs EXCEPT !.enabled = FALSE],
   [BaseInputs EXCEPT !.latitude = 0]}

\* What api.identifyBuilding can do: resolve with success: true, resolve with
\* the body of identifyBuildingController (which has no success field), throw.
ApiResults == {"success", "noSuccessField", "throws"}

DEBOUNCE_MS == 2000
\* The time that passes in one step.
TimeStep == DEBOUNCE_MS \div 2

\* toFixed of a value given in tenths of the last digit kept.
ToFixedTenths(v) == <<v < 0, (Abs(v) + 5) \div 10>>

\* Line 51.
RequestSignature(p) ==
  <<ToFixedTenths(p.latitude), ToFixedTenths(p.longitude), ToFixedTenths(p.heading)>>

\* timers are the pending setTimeout callbacks: how long each has waited, the
\* inputs its closure holds, and whether debounceTimerRef points to it.
\* lastRequestRef is <<>> for ''. inflight are the requests awaiting
\* api.identifyBuilding, each with its place in sent; answered is the latest
\* of the requests answered so far. candidates is <<>> or the signature of the request
\* whose candidates are shown. sent, unchangedFor, refetchedSince and last
\* observe the hook: the requests sent, the time since the inputs last changed,
\* whether refetch was called since the last request, the handler that ran last.
IdleHook ==
  [mounted |-> FALSE, props |-> BaseInputs, timers |-> {}, lastRequestRef |-> <<>>,
   inflight |-> <<>>, candidates |-> <<>>, isLoading |-> FALSE, error |-> FALSE,
   sent |-> <<>>, answered |-> 0, unchangedFor |-> 0, refetchedSince |-> FALSE,
   sinceFix |-> 0, last |-> "none"]

\* Lines 40-67: identifyBuilding of the render with inputs p, up to the await.
identifyBuildingCallback(h, p) ==
  IF p.latitude \in {Undefined, 0} \/ p.longitude \in {Undefined, 0}
     \/ p.heading = Undefined \/ p.horizontalAccuracy = Undefined
  THEN h
  ELSE IF ~p.enabled THEN h
  ELSE IF RequestSignature(p) = h.lastRequestRef THEN h
  ELSE [h EXCEPT !.isLoading = TRUE,
                 !.error = FALSE,
                 !.inflight = Append(@, [signature |-> RequestSignature(p),
                                         seq |-> Len(h.sent) + 1]),
                 !.sent = Append(@, [signature |-> RequestSignature(p),
                                     refetched |-> h.refetchedSince]),
                 !.refetchedSince = FALSE]

\* A clearTimeout that leaves the timer pending.
ClearTimerKeepsIt(timers) == timers

\* clearTimeout(debounceTimerRef.current), lines 85-87 and 96-98.
ClearTimer(timers) == {t \in timers : ~t.current}

\* Lines 83-92: the effect of a render clears the timer of the ref and sets one.
RunEffect(h, p) ==
  [h EXCEPT !.timers = {[t EXCEPT !.current = FALSE] : t \in ClearTimer(h.timers)}
                         \cup {[elapsed |-> 0, closure |-> p, current |-> TRUE]}]

\* Lines 67-79: api.identifyBuilding has settled for the request of signature.
OnApiSettled(h, signature, result) ==
  IF result = "success"
  THEN [h EXCEPT !.candidates = signature, !.lastRequestRef = signature,
                 !.isLoading = FALSE]
  ELSE IF result = "throws"
  THEN [h EXCEPT !.error = TRUE, !.candidates = <<>>, !.isLoading = FALSE]
  ELSE [h EXCEPT !.isLoading = FALSE]

HookOtherUnchanged ==
  UNCHANGED <<clock, rows, nextId, resultCache, req, invocations, task, provider,
              adapter, calc, http, health, pool, proc>>

\* The component mounts with inputs p: first render and its effect.
Mount(p) ==
  /\ ~hook.mounted /\ hook.last = "none"
  /\ hook' = [RunEffect(IdleHook, p) EXCEPT !.mounted = TRUE, !.props = p,
                                            !.last = "mount"]
  /\ HookOtherUnchanged

\* An input changes: identifyBuilding is a new callback, so the cleanup of the
\* effect before (95-99) and the effect of this render (83-92) run.
InputsChange(p) ==
  /\ hook.mounted
  /\ p # hook.props
  /\ hook' = [RunEffect([hook EXCEPT !.timers = ClearTimer(@)], p)
                EXCEPT !.props = p, !.unchangedFor = 0, !.last = "render"]
  /\ HookOtherUnchanged

\* Time passes.
TimePasses ==
  /\ hook.mounted
  /\ hook' = [hook EXCEPT
       !.timers = {[t EXCEPT !.elapsed = Min(@ + TimeStep, DEBOUNCE_MS)] : t \in hook.timers},
       !.unchangedFor = Min(@ + TimeStep, DEBOUNCE_MS),
       !.last = "time"]
  /\ HookOtherUnchanged

\* A timer that has waited DEBOUNCE_MS fires: lines 90-92.
TimerFires(t) ==
  /\ t \in hook.timers
  /\ t.elapsed >= DEBOUNCE_MS
  /\ Len(hook.sent) < MaxHookRequests
  /\ hook' = [identifyBuildingCallback([hook EXCEPT !.timers = @ \ {t}], t.closure)
                EXCEPT !.last = "timer"]
  /\ HookOtherUnchanged

\* refetch, lines 102-106.
Refetch ==
  /\ hook.mounted
  /\ Len(hook.sent) < MaxHookRequests
  /\ hook' = [identifyBuildingCallback([hook EXCEPT !.lastRequestRef = <<>>,
                                                    !.refetchedSince = TRUE], hook.props)
                EXCEPT !.last = "refetch"]
  /\ HookOtherUnchanged

\* api.identifyBuilding settles for a request in flight, in any order.
ApiSettles(i, result) ==
  /\ i \in 1..Len(hook.inflight)
  /\ hook' = [OnApiSettled([hook EXCEPT !.inflight = Remove(@, i)],
                           hook.inflight[i].signature, result)
                EXCEPT !.answered = Max(@, hook.inflight[i].seq), !.last = "response"]
  /\ HookOtherUnchanged

\* The component unmounts: the cleanup of lines 95-99.
Unmount ==
  /\ hook.mounted
  /\ hook' = [hook EXCEPT !.mounted = FALSE, !.timers = ClearTimer(@), !.last = "unmount"]
  /\ HookOtherUnchanged

\* CameraScreen: the hook is fed by useCompass and useDeviceLocation. The
\* magnetometer listener runs every COMPASS_CONFIG.UPDATE_INTERVAL and sets
\* the heading it computes; the location watcher delivers a position every
\* GPS_CONFIG.UPDATE_INTERVAL. sinceFix is the time since the last position.
COMPASS_UPDATE_INTERVAL == 100
GPS_UPDATE_INTERVAL == 1000

\* The headings the magnetometer yields and the latitudes the watcher yields.
CompassHeadings == {902, 904}
FixLatitudes == {10, 14}

\* A render with inputs p: the effect runs again only when an input changed.
Render(h, p) ==
  IF p = h.props
  THEN [h EXCEPT !.last = "time"]
  ELSE [RunEffect([h EXCEPT !.timers = ClearTimer(@)], p)
          EXCEPT !.props = p, !.unchangedFor = 0, !.last = "render"]

\* One magnetometer interval passes and the listener sets the heading.
CompassReading(heading) ==
  /\ hook.mounted
  /\ hook.sinceFix < GPS_UPDATE_INTERVAL
  /\ hook' = Render([hook EXCEPT
         !.timers = {[t EXCEPT !.elapsed = Min(@ + COMPASS_UPDATE_INTERVAL, DEBOUNCE_MS)] :
                       t \in hook.timers},
         !.unchangedFor = Min(@ + COMPASS_UPDATE_INTERVAL, DEBOUNCE_MS),
         !.sinceFix = @ + COMPASS_UPDATE_INTERVAL],
       [hook.props EXCEPT !.heading = heading])
  /\ HookOtherUnchanged

\* The location watcher delivers the position that is due.
LocationReading(latitude) ==
  /\ hook.mounted
  /\ hook.sinceFix >= GPS_UPDATE_INTERVAL
  /\ hook' = Render([hook EXCEPT !.sinceFix = 0],
                    [hook.props EXCEPT !.latitude = latitude])
  /\ HookOtherUnchanged

(***************************************************************************)
(* config/database: the connection pool under saveBuildingToDatabase       *)
(***************************************************************************)
\* poolConfig.max.
POOL_MAX == 20

\* checkedOut counts the clients handed out and not yet released. The calls
\* of saveBuildingToDatabase are counted by the await they stand at: connect
\* (line 19), lookupConnect (line 198, under line 25), lookupQuery (line 218),
\* query (line 90). near is one findBuildingsNearLocation call. started counts
\* the saves called.
IdlePool ==
  [checkedOut |-> 0, started |-> 0, connect |-> 0, lookupConnect |-> 0,
   lookupQuery |-> 0, query |-> 0, near |-> "idle"]

PoolOtherUnchanged ==
  UNCHANGED <<clock, rows, nextId, resultCache, req, invocations, task, provider,
              adapter, calc, http, health, hook, proc>>

\* saveBuildingToDatabase is called: line 19, pool.connect() is awaited.
PoolSaveCalled ==
  /\ pool.started < MaxPoolSaves
  /\ pool' = [pool EXCEPT !.started = @ + 1, !.connect = @ + 1]
  /\ PoolOtherUnchanged

\* pool.connect() of line 19 resolves: a client is handed out while fewer
\* than max are out. Lines 23-25: with an externalId the call goes on to
\* getBuildingByExternalId, which awaits a client of its own (line 198).
PoolSaveConnects(hasExternalId) ==
  /\ pool.connect > 0
  /\ pool.checkedOut < POOL_MAX
  /\ pool' = [pool EXCEPT !.connect = @ - 1,
                          !.checkedOut = @ + 1,
                          !.lookupConnect = IF hasExternalId THEN @ + 1 ELSE @,
                          !.query = IF hasExternalId THEN @ ELSE @ + 1]
  /\ PoolOtherUnchanged

\* pool.connect() of line 19 rejects after connectionTimeoutMillis: the save
\* rejects before its try, holding nothing.
PoolSaveConnectTimesOut ==
  /\ pool.connect > 0
  /\ pool.checkedOut = POOL_MAX
  /\ pool' = [pool EXCEPT !.connect = @ - 1]
  /\ PoolOtherUnchanged

\* pool.connect() of line 198 resolves.
PoolLookupConnects ==
  /\ pool.lookupConnect > 0
  /\ pool.checkedOut < POOL_MAX
  /\ pool' = [pool EXCEPT !.lookupConnect = @ - 1, !.lookupQuery = @ + 1,
                          !.checkedOut = @ + 1]
  /\ PoolOtherUnchanged

\* pool.connect() of line 198 rejects after connectionTimeoutMillis:
\* getBuildingByExternalId rejects, the save rethrows (99-104) and releases
\* its client (105-107).
PoolLookupConnectTimesOut ==
  /\ pool.lookupConnect > 0
  /\ pool.checkedOut = POOL_MAX
  /\ pool' = [pool EXCEPT !.lookupConnect = @ - 1, !.checkedOut = @ - 1]
  /\ PoolOtherUnchanged

\* The SELECT of line 218 answers: the lookup releases its client (246-248)
\* and the save goes on to its statement.
PoolLookupAnswers ==
  /\ pool.lookupQuery > 0
  /\ pool' = [pool EXCEPT !.lookupQuery = @ - 1, !.query = @ + 1, !.checkedOut = @ - 1]
  /\ PoolOtherUnchanged

\* The SELECT fails: the lookup releases its client and rethrows, the save
\* rethrows and releases its own.
PoolLookupFails ==
  /\ pool.lookupQuery > 0
  /\ pool' = [pool EXCEPT !.lookupQuery = @ - 1, !.checkedOut = @ - 2]
  /\ PoolOtherUnchanged

\* client.query of line 90 settles, resolved or rejected: lines 98-107.
PoolSaveSettles ==
  /\ pool.query > 0
  /\ pool' = [pool EXCEPT !.query = @ - 1, !.checkedOut = @ - 1]
  /\ PoolOtherUnchanged

\* findBuildingsNearLocation is called: line 120.
PoolNearCalled ==
  /\ pool.near = "idle"
  /\ pool' = [pool EXCEPT !.near = "connect"]
  /\ PoolOtherUnchanged

PoolNearConnects ==
  /\ pool.near = "connect"
  /\ pool.checkedOut < POOL_MAX
  /\ pool' = [pool EXCEPT !.near = "query", !.checkedOut = @ + 1]
  /\ PoolOtherUnchanged

PoolNearConnectTimesOut ==
  /\ pool.near = "connect"
  /\ pool.checkedOut = POOL_MAX
  /\ pool' = [pool EXCEPT !.near = "idle"]
  /\ PoolOtherUnchanged

\* The query of line 145 settles: lines 175-185.
PoolNearSettles ==
  /\ pool.near = "query"
  /\ pool' = [pool EXCEPT !.near = "idle", !.checkedOut = @ - 1]
  /\ PoolOtherUnchanged

(***************************************************************************)
(* index.ts: gracefulShutdown                                              *)
(***************************************************************************)
\* The forced-shutdown delay of line 52.
FORCE_SHUTDOWN_MS == 10000
\* The time that passes in one step of a shutdown.
ShutdownTimeStep == FORCE_SHUTDOWN_MS \div 2

\* What calls gracefulShutdown, lines 56-68.
ShutdownSignals == {"SIGTERM", "SIGINT", "UNCAUGHT_EXCEPTION", "UNHANDLED_REJECTION"}

\* The process after startServer: the server listens, the pool and the Redis
\* client are open. waiting counts the callbacks given to server.close that
\* have not run; callback is the await the callback that got past pool.end()
\* stands at; timers are the forced-shutdown timers by the time they have
\* waited; closed lists what has been closed, in order.
RunningProcess ==
  [pc |-> "running", exitCode |-> Undefined, server |-> "listening", connections |-> 0,
   waiting |-> 0, callback |-> "none", pool |-> "open", redis |-> "open",
   timers |-> <<>>, signals |-> <<>>, closed |-> <<>>]

\* process.exit(code).
Exit(p, code) == [p EXCEPT !.pc = "exited", !.exitCode = code]

\* Lines 41-44: the catch of the close callback hears of closePool's error
\* (closePool rethrows, lines 165-168) and exits with 1.
OnShutdownErrorIgnored(p) == [p EXCEPT !.callback = "closeRedis", !.redis = "quitting"]
OnShutdownError(p) == Exit(p, 1)

\* Lines 33-39 for every callback waiting for 'close': each runs up to
\* await closePool(). pool.end() is pending for the first caller and rejects
\* for every later one (the pool is ending already); that rejection is
\* handled before any I/O completes.
RunCloseCallbacks(p) ==
  IF p.waiting = 0 THEN p
  ELSE IF p.pool = "open"
  THEN LET q == [p EXCEPT !.waiting = 0, !.pool = "ending", !.callback = "closePool"]
       IN  IF p.waiting > 1 THEN OnShutdownError(q) ELSE q
  ELSE OnShutdownError([p EXCEPT !.waiting = 0])

\* The server emits 'close' once it has stopped listening and its last
\* connection has ended.
EmitCloseIfDrained(p) ==
  IF p.server = "listening" \/ p.connections > 0 THEN p
  ELSE RunCloseCallbacks([p EXCEPT !.server = "closed",
                                   !.closed = IF p.server = "closed" THEN @
                                              ELSE Append(@, "server")])

\* gracefulShutdown(signal), lines 29-54: server.close(callback), then the
\* forced-shutdown timer is set.
gracefulShutdown(p, signal) ==
  EmitCloseIfDrained(
    [p EXCEPT !.server = IF @ = "listening" THEN "closing" ELSE @,
              !.waiting = @ + 1,
              !.timers = Append(@, 0),
              !.signals = Append(@, signal)])

ShutdownOtherUnchanged ==
  UNCHANGED <<clock, rows, nextId, resultCache, req, invocations, task, provider,
              adapter, calc, http, health, hook, pool>>

\* A client connects to the listening server.
ConnectionOpens ==
  /\ proc.pc = "running"
  /\ proc.server = "listening"
  /\ proc.connections < MaxConnections
  /\ proc' = [proc EXCEPT !.connections = @ + 1]
  /\ ShutdownOtherUnchanged

\* A connection ends.
ConnectionEnds ==
  /\ proc.pc = "running"
  /\ proc.connections > 0
  /\ proc' = EmitCloseIfDrained([proc EXCEPT !.connections = @ - 1])
  /\ ShutdownOtherUnchanged

\* A signal or an uncaught error arrives: lines 56-68.
ShutdownSignal(signal) ==
  /\ proc.pc = "running"
  /\ Len(proc.signals) < MaxSignals
  /\ proc' = gracefulShutdown(proc, signal)
  /\ ShutdownOtherUnchanged

\* closePool, lines 161-164: pool.end() resolves; closeRedis is called and
\* redis.quit() awaited (line 81).
PoolEndResolves ==
  /\ proc.pc = "running"
  /\ proc.callback = "closePool"
  /\ proc' = [proc EXCEPT !.pool = "ended", !.closed = Append(@, "pool"),
                          !.callback = "closeRedis", !.redis = "quitting"]
  /\ ShutdownOtherUnchanged

\* closePool, lines 165-168: pool.end() rejects and closePool rethrows.
PoolEndRejects ==
  /\ proc.pc = "running"
  /\ proc.callback = "closePool"
  /\ proc' = OnShutdownError([proc EXCEPT !.pool = "failed"])
  /\ ShutdownOtherUnchanged

\* closeRedis, lines 81-83, then lines 39-40: redis.quit() resolves.
RedisQuitResolves ==
  /\ proc.pc = "running"
  /\ proc.callback = "closeRedis"
  /\ proc' = Exit([proc EXCEPT !.redis = "closed", !.closed = Append(@, "redis"),
                               !.callback = "done"], 0)
  /\ ShutdownOtherUnchanged

\* closeRedis, lines 84-87, then lines 39-40: redis.quit() rejects, the
\* client is disconnected and closeRedis returns.
RedisQuitRejects ==
  /\ proc.pc = "running"
  /\ proc.callback = "closeRedis"
  /\ proc' = Exit([proc EXCEPT !.redis = "disconnected", !.closed = Append(@, "redis"),
                               !.callback = "done"], 0)
  /\ ShutdownOtherUnchanged

\* Time passes while a forced-shutdown timer runs; a timer that is due fires
\* before more time passes.
ShutdownTimePasses ==
  /\ proc.pc = "running"
  /\ Len(proc.timers) > 0
  /\ \A i \in 1..Len(proc.timers) : proc.timers[i] < FORCE_SHUTDOWN_MS
  /\ proc' = [proc EXCEPT !.timers = [i \in 1..Len(@) |-> @[i] + ShutdownTimeStep]]
  /\ ShutdownOtherUnchanged

\* Lines 49-52: a forced-shutdown timer fires.
ForcedShutdownFires ==
  /\ proc.pc = "running"
  /\ \E i \in 1..Len(proc.timers) : proc.timers[i] >= FORCE_SHUTDOWN_MS
  /\ proc' = Exit(proc, 1)
  /\ ShutdownOtherUnchanged

(***************************************************************************)
(* Specifications                                                          *)
(***************************************************************************)
Init ==
  /\ clock = [now |-> 0, ticks |-> 0]
  /\ rows = {}
  /\ nextId = 1
  /\ resultCache = [k \in {} |-> 0]
  /\ req = [r \in Requests |-> IdleRequest]
  /\ invocations = 0
  /\ task = [t \in SaveTasks |-> IdleTask]
  /\ provider \in Providers
  /\ adapter = IdleAdapter
  /\ calc = IdleCalc
  /\ http = IdleHttp
  /\ health = IdleHealth
  /\ hook = IdleHook
  /\ pool = IdlePool
  /\ proc = RunningProcess

Next ==
  \/ \E r \in Serving, input \in Inputs : StartIdentify(r, input)
  \/ \E r \in Serving : ResultCacheAnswers(r)
  \/ \E r \in Serving : ResultCacheReadFails(r)
  \/ \E r \in Serving : CachedBuildingsAnswer(r)
  \/ \E r \in Serving : CachedBuildingsReadFails(r)
  \/ \E r \in Serving, nearbyPlaces \in PlacesResponses : PlacesAnswer(r, nearbyPlaces)
  \/ \E r \in Serving : PlacesRejects(r)
  \/ \E r \in Serving, geocodeResult \in GeocodeResponses : GeocodeAnswers(r, geocodeResult)
  \/ \E r \in Serving : GeocodeRejects(r)
  \/ \E r \in Serving : SavesSettle(r)
  \/ \E r \in Serving : ResultCacheWritten(r)
  \/ \E r \in Serving : ResultCacheWriteFails(r)
  \/ \E step \in TickSteps : TickBetweenCalls(step)

\* identifyBuilding, one invocation at a time.
Spec == Init /\ [][Next]_vars

\* Request 1 is served to its end, then request 2: every awaited call answers
\* and no save rejects.
PairStart(r, input) ==
  /\ r = 1 => req[1].pc = "idle"
  /\ r = 2 => (req[1].pc = "done" /\ req[2].pc = "idle")
  /\ StartIdentify(r, input)

PairPlacesAnswer(r) == PlacesAnswer(r, provider.places)

PairGeocodeAnswers(r) == GeocodeAnswers(r, provider.geocode)

PairSavesSettle(r) == SavesSettleWith(r, {})

InitPair ==
  /\ Init
  /\ provider = [places |-> <<PlaceB, PlaceA>>, geocode |-> Some(GeocodeNominatim)]

NextPair ==
  \/ \E r \in Requests, input \in KeyInputs : PairStart(r, input)
  \/ \E r \in Requests : ResultCacheAnswers(r)
  \/ \E r \in Requests : CachedBuildingsAnswer(r)
  \/ \E r \in Requests : PairPlacesAnswer(r)
  \/ \E r \in Requests : PairGeocodeAnswers(r)
  \/ \E r \in Requests : PairSavesSettle(r)
  \/ \E r \in Requests : ResultCacheWritten(r)

\* Two requests, one after the other, over every pair of KeyInputs.
SpecPair == InitPair /\ [][NextPair]_vars

NextOverlap ==
  \/ \E r \in Requests, input \in SameKeyInputs : StartIdentify(r, input)
  \/ \E r \in Requests : ResultCacheAnswers(r)
  \/ \E r \in Requests : CachedBuildingsAnswer(r)
  \/ \E r \in Requests : PairPlacesAnswer(r)
  \/ \E r \in Requests : PairGeocodeAnswers(r)
  \/ \E r \in Requests : PairSavesSettle(r)
  \/ \E r \in Requests : ResultCacheWritten(r)
  \/ \E step \in TickSteps : Tick(step)

\* Requests for one key that overlap in every way the event loop allows.
SpecOverlap == InitPair /\ [][NextOverlap]_vars

\* findNearbyPlaces alone, against Redis and the Places API.
NextPlaces ==
  \/ \E coordinates \in AdapterPoints, radius \in AdapterRadii : PlacesCall(coordinates, radius)
  \/ PlacesCacheAnswers
  \/ PlacesCacheReadFails
  \/ \E response \in PlacesApiResponses : PlacesProviderResponds(response)
  \/ PlacesProviderFails
  \/ PlacesCacheWritten
  \/ PlacesCacheWriteFails
  \/ \E step \in TickSteps : Tick(step)

SpecPlaces == InitPair /\ [][NextPlaces]_vars

\* reverseGeocode alone, against Redis and its two providers.
NextGeocode ==
  \/ \E coordinates \in AdapterPoints : GeocodeCall(coordinates)
  \/ GeocodeCacheAnswers
  \/ GeocodeCacheReadFails
  \/ \E response \in GoogleGeocodeResponses : GoogleResponds(response)
  \/ GoogleFails
  \/ \E response \in NominatimResponses : NominatimResponds(response)
  \/ NominatimFails
  \/ GeocodeCacheWritten
  \/ GeocodeCacheWriteFails

SpecGeocode == InitPair /\ [][NextGeocode]_vars

\* calculateConfidenceScore alone: one call, then a second call with one
\* factor changed.
NextScore ==
  \/ \E factors \in ScoringFactors : ScoreFactors(factors)
  \/ \E distance \in FactorDistances : ScoreAtDistance(distance)
  \/ \E bearingDiff \in FactorBearingDiffs : ScoreAtBearingDiff(bearingDiff)
  \/ \E source \in FactorSources : ScoreForSource(source)

SpecScore == InitPair /\ [][NextScore]_vars

InitTies ==
  /\ Init
  /\ provider = [places |-> <<PlaceC, PlaceG, PlaceF, PlaceE, PlaceD, PlaceH, PlaceA>>,
                 geocode |-> Some(GeocodeNominatim)]

NextTies ==
  \/ \E r \in Requests, input \in TieInputs : PairStart(r, input)
  \/ \E r \in Requests : ResultCacheAnswers(r)
  \/ \E r \in Requests : CachedBuildingsAnswer(r)
  \/ \E r \in Requests : PairPlacesAnswer(r)
  \/ \E r \in Requests : PairSavesSettle(r)
  \/ \E r \in Requests : ResultCacheWritten(r)

\* Two requests, one after the other, where the provider lists places that
\* lie mirrored about the line of sight and so score alike.
SpecTies == InitTies /\ [][NextTies]_vars

\* The functions of bearing.service alone, one call each.
NextGeometry ==
  \/ \E bearing \in FloatBearings : CallNormalizeBearing(bearing)
  \/ \E bearing1, bearing2 \in GeoBearings : CallBearingDifference(bearing1, bearing2)
  \/ \E from, to \in GeoPoints : CallDistance(from, to)

SpecGeometry == InitPair /\ [][NextGeometry]_vars

NextHttp ==
  \/ \E body \in Bodies : ValidateRequest(body)
  \/ \E r \in Serving : ControllerCalls(r)
  \/ \E r \in Serving : ResultCacheAnswers(r)
  \/ \E r \in Serving : CachedBuildingsAnswer(r)
  \/ \E r \in Serving : PairPlacesAnswer(r)
  \/ \E r \in Serving : PlacesRejects(r)
  \/ \E r \in Serving : PairGeocodeAnswers(r)
  \/ \E r \in Serving : PairSavesSettle(r)
  \/ \E r \in Serving : ResultCacheWritten(r)
  \/ \E r \in Serving : ControllerResponds(r)
  \/ \E r \in Serving : ControllerFails(r)

\* The endpoint: bodies arrive one after the other; the valid ones run
\* identifyBuilding against providers that hold two places.
SpecHttp == InitPair /\ [][NextHttp]_vars

NextHealth ==
  \/ HealthCheckStarts
  \/ \E result \in ProbeResults : PostgresProbeSettles(result)
  \/ \E result \in ProbeResults : RedisProbeSettles(result)
  \/ \E body \in ValidBodies : ValidateRequest(body)
  \/ \E r \in Serving : ControllerCalls(r)
  \/ \E r \in Serving : ResultCacheAnswers(r)
  \/ \E r \in Serving : CachedBuildingsAnswer(r)
  \/ \E r \in Serving : PairPlacesAnswer(r)
  \/ \E r \in Serving : PairGeocodeAnswers(r)
  \/ \E r \in Serving : PairSavesSettle(r)
  \/ \E r \in Serving : ResultCacheWritten(r)
  \/ \E r \in Serving : ControllerResponds(r)

\* Health checks, one after the other, while the endpoint serves requests.
SpecHealth == InitPair /\ [][NextHealth]_vars

NextHook ==
  \/ \E p \in HookInputs : Mount(p)
  \/ \E p \in HookInputs : InputsChange(p)
  \/ TimePasses
  \/ \E t \in hook.timers : TimerFires(t)
  \/ Refetch
  \/ \E i \in 1..MaxHookRequests, result \in ApiResults : ApiSettles(i, result)
  \/ Unmount

\* One mounted component using the hook.
SpecHook == InitPair /\ [][NextHook]_vars

\* The camera screen stays open: the sensors keep delivering, a timer that is
\* due fires, a request in flight is answered.
NextDevice ==
  \/ Mount(BaseInputs)
  \/ \E heading \in CompassHeadings : CompassReading(heading)
  \/ \E latitude \in FixLatitudes : LocationReading(latitude)
  \/ \E t \in hook.timers : TimerFires(t)
  \/ \E i \in 1..MaxHookRequests, result \in ApiResults : ApiSettles(i, result)

\* The event loop runs every callback that is due: the sensor listeners, the
\* debounce timer, the continuation of an answered request.
SpecDevice ==
  /\ InitPair
  /\ [][NextDevice]_vars
  /\ WF_vars(Mount(BaseInputs))
  /\ WF_vars(\E heading \in CompassHeadings : CompassReading(heading))
  /\ WF_vars(\E latitude \in FixLatitudes : LocationReading(latitude))
  /\ WF_vars(\E t \in hook.timers : TimerFires(t))
  /\ WF_vars(\E i \in 1..MaxHookRequests, result \in ApiResults : ApiSettles(i, result))

\* The requests of SpecRepeat: one point, with or without a heading.
RepeatInputs ==
  [latitude : {0}, longitude : {0}, heading : {Undefined, 900}, searchRadius : {Undefined}]

NextRepeat ==
  \/ \E r \in Requests, input \in RepeatInputs : PairStart(r, input)
  \/ \E r \in Requests : ResultCacheAnswers(r)
  \/ \E r \in Requests : ResultCacheReadFails(r)
  \/ \E r \in Requests : CachedBuildingsAnswer(r)
  \/ \E r \in Requests, nearbyPlaces \in {provider.places, <<>>} : PlacesAnswer(r, nearbyPlaces)
  \/ \E r \in Requests, geocodeResult \in {provider.geocode, None} :
       GeocodeAnswers(r, geocodeResult)
  \/ \E r \in Requests : PairSavesSettle(r)
  \/ \E r \in Requests : ResultCacheWritten(r)
  \/ \E r \in Requests : ResultCacheWriteFails(r)
  \/ \E step \in TickSteps : TickBetweenCalls(step)

\* Two requests, one after the other, where the adapters may come back empty
\* and Redis may fail.
SpecRepeat == InitPair /\ [][NextRepeat]_vars

\* Calls of either adapter, one after the other, against one Redis.
NextAdapters ==
  \/ NextPlaces
  \/ NextGeocode

SpecAdapters == InitPair /\ [][NextAdapters]_vars

NextPool ==
  \/ PoolSaveCalled
  \/ \E hasExternalId \in BOOLEAN : PoolSaveConnects(hasExternalId)
  \/ PoolSaveConnectTimesOut
  \/ PoolLookupConnects
  \/ PoolLookupConnectTimesOut
  \/ PoolLookupAnswers
  \/ PoolLookupFails
  \/ PoolSaveSettles
  \/ PoolNearCalled
  \/ PoolNearConnects
  \/ PoolNearConnectTimesOut
  \/ PoolNearSettles

\* The pool under overlapping saves, as the parallel saves of several
\* identifyBuilding runs produce them.
SpecPool == InitPair /\ [][NextPool]_vars

NextShutdown ==
  \/ ConnectionOpens
  \/ ConnectionEnds
  \/ \E signal \in ShutdownSignals : ShutdownSignal(signal)
  \/ PoolEndResolves
  \/ PoolEndRejects
  \/ RedisQuitResolves
  \/ RedisQuitRejects
  \/ ShutdownTimePasses
  \/ ForcedShutdownFires

\* The process from startServer to its exit. Time passes and a timer that is
\* due fires; whether the connections end, the pool ends or Redis answers is
\* left open.
SpecShutdown ==
  /\ InitPair
  /\ [][NextShutdown]_vars
  /\ WF_vars(ShutdownTimePasses)
  /\ WF_vars(ForcedShutdownFires)

\* The table alone: no identifyBuilding runs, the providers play no part.
InitSave ==
  /\ Init
  /\ provider = [places |-> <<PlaceB, PlaceA>>, geocode |-> Some(GeocodeNominatim)]

NextSave ==
  \/ \E t \in SaveTasks, building \in SaveInputs : SaveBegin(t, building)
  \/ \E t \in SaveTasks : SaveLookup(t)
  \/ \E t \in SaveTasks : SaveLookupFails(t)
  \/ \E t \in SaveTasks : SaveWrite(t)
  \/ \E t \in SaveTasks : SaveWriteFails(t)
  \/ \E step \in TickSteps : Tick(step)

\* Calls of saveBuildingToDatabase that may overlap.
SpecSave == InitSave /\ [][NextSave]_vars

NextSaveSeq ==
  \/ \E t \in SaveTasks, building \in SaveInputs : SaveBeginAlone(t, building)
  \/ \E t \in SaveTasks : SaveLookup(t)
  \/ \E t \in SaveTasks : SaveLookupFails(t)
  \/ \E t \in SaveTasks : SaveWrite(t)
  \/ \E t \in SaveTasks : SaveWriteFails(t)
  \/ \E step \in TickSteps : Tick(step)

\* Calls of saveBuildingToDatabase of which each ends before the next begins.
SpecSaveSeq == InitSave /\ [][NextSaveSeq]_vars

(***************************************************************************)
(* Properties of identifyBuilding                                          *)
(***************************************************************************)
\* The invocation ran the miss path up to the start of the saves.
PastGathering(q) ==
  \/ q.pc \in {"saveBuildingToCache", "cacheIdentifyResults"}
  \/ (q.pc = "done" /\ q.outcome.status = "returned" /\ q.cachedResults = None)

IsSortedByConfidence(candidates) ==
  \A i \in 1..Len(candidates) - 1 : candidates[i].confidence >= candidates[i + 1].confidence

\* C1: on a result-cache hit identifyBuilding returns exactly the cached list
\* and calls none of getCachedBuildings, findNearbyPlaces, reverseGeocode,
\* saveBuildingToCache and cacheIdentifyResults for that request.
CacheHitShortCircuits ==
  \A r \in Requests :
    req[r].cachedResults # None =>
      /\ req[r].pc = "done"
      /\ req[r].outcome = [status |-> "returned", candidates |-> req[r].cachedResults[1]]
      /\ req[r].calls = NoCalls
      /\ req[r].failed = {}

CacheHitReturned ==
  \E r \in Requests :
    /\ req[r].cachedResults # None
    /\ req[r].outcome.status = "returned"
    /\ Len(req[r].outcome.candidates) >= 2
    /\ rows # {}

\* C2: on a miss, when findNearbyPlaces throws, identifyBuilding fails with
\* the error, returns no list, and neither saves a building nor writes the
\* result cache for that request.
PlacesFailureState ==
  \A r \in Requests :
    "findNearbyPlaces" \in req[r].failed =>
      /\ req[r].pc = "done"
      /\ req[r].outcome = [status |-> "threw", candidates |-> <<>>]
      /\ req[r].cachedResults = None
      /\ req[r].calls.saveBuildingToCache = <<>>
      /\ req[r].calls.cacheIdentifyResults = 0

PlacesFailureStep ==
  \A r \in Requests :
    (req[r].pc = "findNearbyPlaces" /\ "findNearbyPlaces" \in req'[r].failed) =>
      /\ rows' = rows
      /\ resultCache' = resultCache

PlacesFailurePropagates == []PlacesFailureState /\ [][PlacesFailureStep]_vars

PlacesFailed ==
  \E r \in Requests :
    /\ "findNearbyPlaces" \in req[r].failed
    /\ req[r].outcome.status = "threw"
    /\ req[r].candidates # <<>>

\* C3: findNearbyPlaces is the only call whose failure makes identifyBuilding
\* fail; when findNearbyPlaces returns and reverseGeocode fails,
\* identifyBuilding does not throw and returns the candidates gathered so far.
GeocodeFailureDegrades ==
  \A r \in Requests :
    /\ req[r].outcome.status = "threw" => "findNearbyPlaces" \in req[r].failed
    /\ "reverseGeocode" \in req[r].failed =>
         (req[r].pc = "done" => req[r].outcome.status = "returned")

\* C4: reverseGeocode is called at most once per request, only after
\* getCachedBuildings and findNearbyPlaces have completed, and exactly when
\* those two gave fewer than 3 candidates; a non-null result adds exactly one
\* candidate.
IsGathered(c) == c.source \in {"cache", "google_places"}

GeocodeFallbackRule ==
  \A r \in Requests :
    LET q == req[r]
        gathered == Len(SelectSeq(q.candidates, IsGathered))
        added == Len(q.candidates) - gathered
    IN /\ q.calls.reverseGeocode <= 1
       /\ q.calls.reverseGeocode = 1 =>
            /\ q.calls.getCachedBuildings = 1
            /\ q.calls.findNearbyPlaces = 1
            /\ q.pc \notin {"getCachedIdentifyResults", "getCachedBuildings",
                             "findNearbyPlaces"}
       /\ q.pc = "reverseGeocode" =>
            /\ q.calls.reverseGeocode = 1
            /\ added = 0
            /\ gathered < 3
       /\ PastGathering(q) =>
            /\ q.calls.reverseGeocode = (IF gathered < 3 THEN 1 ELSE 0)
            /\ added <= q.calls.reverseGeocode

GeocodeAppended ==
  \E r \in Requests :
    /\ req[r].pc = "done"
    /\ req[r].outcome.status = "returned"
    /\ req[r].calls.reverseGeocode = 1
    /\ Len(SelectSeq(req[r].outcome.candidates, IsGathered)) = 2
    /\ Len(req[r].outcome.candidates) = 3
    /\ \E c \in {req[r].outcome.candidates[i] : i \in 1..3} : c.source = "cache"

\* C5: every list identifyBuilding returns, and every list it stores in the
\* result cache, is ordered by non-increasing confidence.
ListsSortedByConfidence ==
  /\ \A r \in Requests :
       req[r].outcome.status = "returned" => IsSortedByConfidence(req[r].outcome.candidates)
  /\ \A key \in DOMAIN resultCache :
       IsSortedByConfidence(JSONParse(resultCache[key].value))

SortedListFromCache ==
  \E r \in Requests :
    /\ req[r].cachedResults # None
    /\ req[r].outcome.status = "returned"
    /\ \E i \in 1..Len(req[r].outcome.candidates) - 1 :
         req[r].outcome.candidates[i].confidence
           > req[r].outcome.candidates[i + 1].confidence
    /\ \E i \in 1..Len(provider.places) - 1 :
         /\ provider.places[i].placeId = req[r].outcome.candidates[i + 1].externalId
         /\ provider.places[i + 1].placeId = req[r].outcome.candidates[i].externalId

\* C6: the candidates handed to saveBuildingToCache are exactly the first
\* min(5, k) of the k sorted candidates with source other than 'cache' and
\* confidence above 30, each once; no candidate of source 'cache' or of
\* confidence 30 or less is ever written to the table.
IsEligible(c) == c.source # "cache" /\ c.confidence > 3000

ExpectedSaves(candidates) ==
  LET eligible == SelectSeq(candidates, IsEligible)
  IN SubSeq(eligible, 1, Min(5, Len(eligible)))

SavedAreTopEligible ==
  /\ \A r \in Requests :
       /\ PastGathering(req[r]) =>
            /\ req[r].calls.saveBuildingToCache = ExpectedSaves(req[r].candidates)
            /\ Len(req[r].saving) = Len(req[r].calls.saveBuildingToCache)
            /\ \A i \in 1..Len(req[r].saving) :
                 /\ req[r].saving[i].externalId = req[r].calls.saveBuildingToCache[i].externalId
                 /\ req[r].saving[i].source = req[r].calls.saveBuildingToCache[i].source
       /\ ~PastGathering(req[r]) => req[r].calls.saveBuildingToCache = <<>>
  /\ \A row \in rows : row.source # "cache" /\ row.metadata.confidence > 3000

FiveOfManySaved ==
  \E r \in Requests :
    /\ req[r].pc = "done"
    /\ Len(req[r].calls.saveBuildingToCache) = 5
    /\ Len(SelectSeq(req[r].candidates, IsEligible)) > 5
    /\ \E i \in 1..Len(req[r].candidates) :
         /\ req[r].candidates[i].source # "cache"
         /\ req[r].candidates[i].confidence = 3000
    /\ \E i \in 1..Len(req[r].candidates) : req[r].candidates[i].source = "cache"
    /\ Cardinality(rows) >= 5

\* C7: a failed save or a failed write of the result cache does not affect
\* the response: identifyBuilding raises no error and returns the scored and
\* sorted list it had before the writes.
PersistFailureStep ==
  \A r \in Requests :
    /\ (req[r].pc = "saveBuildingToCache" /\ req'[r] # req[r]) =>
         /\ req'[r].pc = "cacheIdentifyResults"
         /\ req'[r].candidates = req[r].candidates
         /\ req'[r].outcome.status = "pending"
    /\ (req[r].pc = "cacheIdentifyResults" /\ req'[r] # req[r]) =>
         /\ req'[r].pc = "done"
         /\ req'[r].outcome = [status |-> "returned", candidates |-> req[r].candidates]
         /\ IsSortedByConfidence(req[r].candidates)

PersistFailuresSwallowed == [][PersistFailureStep]_vars

ReturnedDespiteFailedWrites ==
  \E r \in Requests :
    /\ req[r].outcome.status = "returned"
    /\ {"saveBuildingToCache", "cacheIdentifyResults"} \subseteq req[r].failed
    /\ Len(req[r].calls.saveBuildingToCache) >= 2
    /\ Len(req[r].outcome.candidates) >= 2

\* C8: a failed read of the result cache is a miss (the pipeline runs and
\* findNearbyPlaces is called), a failed read of the building cache is an
\* empty list of cached candidates, and neither makes identifyBuilding throw.
CacheReadFailuresDegrade ==
  \A r \in Requests :
    LET q == req[r]
    IN /\ "getCachedIdentifyResults" \in q.failed =>
            /\ q.cachedResults = None
            /\ q.calls.getCachedBuildings = 1
            /\ q.pc # "getCachedBuildings" => q.calls.findNearbyPlaces = 1
       /\ "getCachedBuildings" \in q.failed =>
            /\ q.calls.findNearbyPlaces = 1
            /\ \A i \in 1..Len(q.candidates) : q.candidates[i].source # "cache"
       /\ q.outcome.status = "threw" =>
            q.failed \cap {"findNearbyPlaces", "reverseGeocode"} # {}

CacheReadsFailed ==
  \E r \in Requests :
    /\ req[r].outcome.status = "returned"
    /\ {"getCachedIdentifyResults", "getCachedBuildings"} \subseteq req[r].failed
    /\ req[r].outcome.candidates # <<>>
    /\ getCachedBuildings(rows, UserCoordinates(req[r].input), SearchRadius(req[r].input),
                          clock.now) # <<>>

(***************************************************************************)
(* Properties of saveBuildingToDatabase                                    *)
(***************************************************************************)
HasKey(row, building) ==
  /\ row.external_id = building.externalId
  /\ row.source = building.source

\* The columns a save of `building` leaves in the row it wrote.
HoldsFieldsOf(row, building) ==
  /\ row.name = (IF Truthy(building.name) THEN building.name ELSE NullStr)
  /\ row.address = building.address
  /\ row.latitude = building.latitude
  /\ row.longitude = building.longitude
  /\ row.metadata = StripMetadata(building.metadata)
  /\ row.expires_at = building.expiresAt

\* C9: whatever the interleaving of saveBuildingToDatabase calls with the same
\* externalId and source, the table ends with exactly one row for that pair,
\* holding the fields of one of the writers.
ConcurrentSavesKeepOneRow ==
  (\A t \in SaveTasks : task[t].pc \in {"idle", "done"}) =>
    \A t \in SaveTasks :
      (task[t].outcome.status = "resolved" /\ Truthy(task[t].building.externalId)) =>
        /\ Cardinality({row \in rows : HasKey(row, task[t].building)}) = 1
        /\ \A row \in rows :
             HasKey(row, task[t].building) =>
               \E w \in SaveTasks :
                 /\ task[w].outcome.status = "resolved"
                 /\ HasKey(row, task[w].building)
                 /\ HoldsFieldsOf(row, task[w].building)

\* C10: when no two saveBuildingToDatabase calls overlap, the table holds at
\* most one row per (externalId, source) with externalId present; a save
\* whose pair matches a row updates that row and returns its id, and a save
\* inserts a row only when no row matches.
OneRowPerKey ==
  \A a \in rows, b \in rows :
    (a.external_id # NullStr /\ a.external_id = b.external_id /\ a.source = b.source)
      => a = b

SaveWriteStep ==
  \A t \in SaveTasks :
    (task[t].pc = "query" /\ task'[t].outcome.status = "resolved") =>
      LET building == task[t].building
          found == IF Truthy(building.externalId)
                   THEN MatchingRows(rows, building.externalId, building.source)
                   ELSE {}
      IN IF found # {}
         THEN \E row \in found :
                /\ task'[t].outcome.id = row.id
                /\ rows' = (rows \ {row}) \cup
                     {[row EXCEPT !.name = IF Truthy(building.name)
                                           THEN building.name ELSE NullStr,
                                  !.address = building.address,
                                  !.latitude = building.latitude,
                                  !.longitude = building.longitude,
                                  !.metadata = StripMetadata(building.metadata),
                                  !.expires_at = building.expiresAt,
                                  !.updated_at = clock.now]}
         ELSE \E row \in rows' :
                /\ row \notin rows
                /\ row.id \notin {old.id : old \in rows}
                /\ rows' = rows \cup {row}
                /\ task'[t].outcome.id = row.id
                /\ row.source = building.source
                /\ row.external_id = (IF Truthy(building.externalId)
                                       THEN building.externalId ELSE NullStr)
                /\ HoldsFieldsOf(row, building)

SequentialSavesUpsert == []OneRowPerKey /\ [][SaveWriteStep]_vars

RowUpdatedInPlace ==
  \E t \in SaveTasks, u \in SaveTasks :
    /\ t # u
    /\ task[t].outcome.status = "resolved"
    /\ task[u].outcome.status = "resolved"
    /\ task[t].outcome.id = task[u].outcome.id
    /\ task[t].building # task[u].building
    /\ \E row \in rows :
         /\ row.id = task[u].outcome.id
         /\ HoldsFieldsOf(row, task[u].building)
         /\ row.updated_at > row.created_at
    /\ Cardinality(rows) = 2

(***************************************************************************)
(* Properties of the result cache key and of the geometry step             *)
(***************************************************************************)
\* A coordinate rounded to 5 decimals, a heading rounded to an integer.
RoundedTo5(v) == IF v < 0 THEN 0 - ((Abs(v) + 5) \div 10) ELSE (v + 5) \div 10

RoundedHeading(heading) == IF heading = Undefined THEN Undefined ELSE (heading + 5) \div 10

EffectiveRadius(input) ==
  IF input.searchRadius = Undefined THEN SEARCH_RADIUS_METERS ELSE input.searchRadius

\* C11: a result-cache entry is returned only to a request whose latitude and
\* longitude rounded to 5 decimals, heading rounded to an integer (or absence
\* of heading) and search radius equal those of the request that wrote it.
CacheEntryOnlyForSameKey ==
  req[2].cachedResults # None =>
    /\ RoundedTo5(req[2].input.latitude) = RoundedTo5(req[1].input.latitude)
    /\ RoundedTo5(req[2].input.longitude) = RoundedTo5(req[1].input.longitude)
    /\ RoundedHeading(req[2].input.heading) = RoundedHeading(req[1].input.heading)
    /\ EffectiveRadius(req[2].input) = EffectiveRadius(req[1].input)
    /\ req[2].outcome.candidates = JSONParse(JSONStringify(req[1].outcome.candidates))

HitAcrossRoundedInputs ==
  /\ req[2].cachedResults # None
  /\ req[2].outcome.status = "returned"
  /\ req[2].input.latitude # req[1].input.latitude
  /\ req[2].input.heading # req[1].input.heading
  /\ req[2].input.searchRadius # req[1].input.searchRadius
  /\ req[2].outcome.candidates # <<>>

\* C15: on the miss path every candidate, also one built from a record of the
\* building cache, carries the distance and bearing computed from the
\* request's point, and carries bearingDiff exactly when the request has a
\* heading (0 included), computed against that heading.
GeometryFromCurrentRequest ==
  \A r \in Requests :
    PastGathering(req[r]) =>
      \A i \in 1..Len(req[r].candidates) :
        LET c == req[r].candidates[i]
            from == Point(req[r].input.latitude, req[r].input.longitude)
        IN /\ c.distance = calculateDistance(from, c.coordinates)
           /\ c.bearing = calculateBearing(from, c.coordinates)
           /\ (c.bearingDiff # Undefined) <=> (req[r].input.heading # Undefined)
           /\ req[r].input.heading # Undefined =>
                c.bearingDiff = calculateBearingDifference(c.bearing, req[r].input.heading)

CachedCandidateRecomputed ==
  /\ req[2].outcome.status = "returned"
  /\ req[2].cachedResults = None
  /\ req[2].input.heading = 0
  /\ req[1].input.heading = 905
  /\ \E i \in 1..Len(req[2].outcome.candidates) :
       LET c == req[2].outcome.candidates[i]
       IN /\ c.source = "cache"
          /\ c.distance > 0
          /\ c.bearingDiff # Undefined
          /\ c.bearingDiff # c.metadata.bearingDiff

\* C12: a result-cache entry is immutable once written: from the moment it is
\* stored until it expires its value never changes, whatever the interleaving
\* of identify requests.
EntryUnchangedStep ==
  \A key \in (DOMAIN resultCache) \cap (DOMAIN resultCache') :
    resultCache'[key] = resultCache[key]

ResultCacheEntryImmutable == [][EntryUnchangedStep]_vars

\* C13: findNearbyPlaces never throws to its caller: when the provider fails
\* (HTTP error or timeout, or a status other than OK and ZERO_RESULTS) and when
\* the provider's result is empty, it returns an empty list.
ProviderFailedOrEmpty(a) ==
  /\ a.queried # <<>>
  /\ \/ a.queried[1].status \notin {"OK", "ZERO_RESULTS"}
     \/ a.queried[1].results = <<>>

PlacesNeverThrows ==
  adapter.fn = "findNearbyPlaces" =>
    /\ adapter.outcome.status # "threw"
    /\ (adapter.pc = "done" /\ ProviderFailedOrEmpty(adapter)) =>
         /\ adapter.outcome.status = "returned"
         /\ adapter.outcome.value = <<>>

\* The provider answered REQUEST_DENIED with an item in the body, and the
\* call has returned.
PlacesErrorStatusReturned ==
  /\ adapter.fn = "findNearbyPlaces" /\ adapter.pc = "done"
  /\ adapter.queried # <<>>
  /\ adapter.queried[1].status = "REQUEST_DENIED"
  /\ adapter.queried[1].results # <<>>
  /\ adapter.outcome.status = "returned"

\* C14: within one reverseGeocode call that misses its cache, Google is queried
\* first and Nominatim only after Google failed or returned no result; the call
\* returns at most one result, tagged with the provider that produced it, and
\* returns null exactly when both providers fail.
QueriedProviders(a) == [i \in 1..Len(a.queried) |-> a.queried[i].provider]

BothProvidersFailed(a) ==
  /\ Len(a.queried) = 2
  /\ a.queried[1].result = None
  /\ a.queried[2].result = None

GeocodeFallbackOrder ==
  (adapter.fn = "reverseGeocode" /\ adapter.cache = "miss") =>
    /\ QueriedProviders(adapter) \in
         {<<>>, <<"google_geocoding">>, <<"google_geocoding", "nominatim">>}
    /\ Len(adapter.queried) = 2 => adapter.queried[1].result = None
    /\ adapter.pc = "done" =>
         /\ Len(adapter.outcome.value) <= 1
         /\ adapter.outcome.value # None =>
              /\ adapter.outcome.value = adapter.queried[Len(adapter.queried)].result
              /\ adapter.outcome.value[1].source
                   = adapter.queried[Len(adapter.queried)].provider
         /\ adapter.outcome.value = None <=> BothProvidersFailed(adapter)

\* C16: an upsert through saveBuildingToCache merges the computed fields
\* (distance, bearing, bearingDiff, confidence at the time of the save) into
\* the metadata it writes, and every externally-sourced key of the candidate's
\* metadata is in the written row with its value.
ComputedKeys == {"distance", "bearing", "bearingDiff", "confidence"}

MergedFrom(row, candidate) ==
  /\ row.external_id = candidate.externalId
  /\ row.source = candidate.source
  /\ \A k \in (DOMAIN candidate.metadata) \ ComputedKeys :
       candidate.metadata[k] # Undefined =>
         /\ k \in DOMAIN row.metadata
         /\ row.metadata[k] = candidate.metadata[k]
  /\ Get(row.metadata, "distance") = candidate.distance
  /\ Get(row.metadata, "bearing") = candidate.bearing
  /\ Get(row.metadata, "bearingDiff") = candidate.bearingDiff
  /\ Get(row.metadata, "confidence") = candidate.confidence

MetadataMergeStep ==
  \A r \in Requests :
    (req[r].pc = "saveBuildingToCache" /\ req'[r].pc = "cacheIdentifyResults") =>
      \A row \in rows' \ rows :
        \E i \in 1..Len(req[r].calls.saveBuildingToCache) :
          MergedFrom(row, req[r].calls.saveBuildingToCache[i])

UpsertMergesMetadata == [][MetadataMergeStep]_vars

\* A row written twice, the second time with a heading: it holds the
\* provider's keys and the four computed ones.
RowMergedOnUpdate ==
  \E row \in rows :
    /\ row.updated_at > row.created_at
    /\ {"businessStatus", "rating"} \cup ComputedKeys \subseteq DOMAIN row.metadata
    /\ \E r \in Requests :
         /\ req[r].pc = "cacheIdentifyResults"
         /\ \E i \in 1..Len(req[r].calls.saveBuildingToCache) :
              MergedFrom(row, req[r].calls.saveBuildingToCache[i])

\* C17: the building-cache lookup never returns an expired record:
\* findBuildingsNearLocation returns only records whose expiry time is absent
\* or strictly later than the current time, so no candidate of source 'cache'
\* gathered on the miss path derives from a record that had expired when it
\* was read.
IsExpired(expiresAt, now) == expiresAt # Undefined /\ expiresAt <= now

\* The request has read the building cache and has not returned: the clock
\* still shows the time of the read.
ReadBuildingCache(q) ==
  q.pc \in {"findNearbyPlaces", "reverseGeocode", "saveBuildingToCache", "cacheIdentifyResults"}

NoExpiredRecordReturned ==
  \A r \in Requests :
    ReadBuildingCache(req[r]) =>
      \A i \in 1..Len(req[r].candidates) :
        req[r].candidates[i].source = "cache" =>
          \E row \in rows :
            /\ row.id = req[r].candidates[i].id
            /\ ~IsExpired(row.expires_at, clock.now)

\* A record within the radius expires at this very instant, and the request
\* that has just read the building cache holds no candidate from it.
ExpiringRecordLeftOut ==
  \E r \in Requests :
    /\ req[r].pc = "findNearbyPlaces"
    /\ "getCachedBuildings" \notin req[r].failed
    /\ req[r].candidates = <<>>
    /\ \E row \in rows :
         /\ row.expires_at = clock.now
         /\ calculateDistance(UserCoordinates(req[r].input),
                              Point(row.latitude, row.longitude))
              <= SearchRadius(req[r].input)

BearingComponentShape(bearingDiff) ==
  LET score == calculateBearingScore(bearingDiff)
  IN /\ bearingDiff <= 150 => score = ScoreScale
     /\ bearingDiff >= 900 => score = 0
     /\ (bearingDiff > 150 /\ bearingDiff < 900) =>
          score = ScoreScale - ((bearingDiff - 150) * ScoreScale) \div (900 - 150)

RanksAbove ==
  { <<"google_places", "google_geocoding">>, <<"google_geocoding", "nominatim">>,
    <<"google_places", "nominatim">>, <<"cache", "nominatim">> }

GatherRank(source) ==
  IF source = "cache" THEN 0 ELSE IF source = "google_places" THEN 1 ELSE 2

\* Where the provider lists the place, where the building cache lists the row.
PlaceIndex(externalId) ==
  CHOOSE k \in 1..Len(provider.places) : provider.places[k].placeId = externalId

CacheIndex(q, id) ==
  LET cached == getCachedBuildings(rows, UserCoordinates(q.input), SearchRadius(q.input),
                                   clock.now)
  IN CHOOSE k \in 1..Len(cached) : cached[k].id = id

GatheredBefore(q, a, b) ==
  \/ GatherRank(a.source) < GatherRank(b.source)
  \/ a.source = "cache" /\ b.source = "cache" /\ CacheIndex(q, a.id) < CacheIndex(q, b.id)
  \/ /\ a.source = "google_places" /\ b.source = "google_places"
     /\ PlaceIndex(a.externalId) < PlaceIndex(b.externalId)

TiesKeepGatherOrder ==
  \A r \in Requests :
    req[r].pc = "saveBuildingToCache" =>
      \A i, j \in 1..Len(req[r].candidates) :
        (i < j /\ req[r].candidates[i].confidence = req[r].candidates[j].confidence) =>
          GatheredBefore(req[r], req[r].candidates[i], req[r].candidates[j])

\* A list with two places candidates that tie and two building-cache
\* candidates that tie.
TiedPairInList(q, source) ==
  \E i, j \in 1..Len(q.candidates) :
    /\ i < j
    /\ q.candidates[i].source = source /\ q.candidates[j].source = source
    /\ q.candidates[i].confidence = q.candidates[j].confidence

TiesInList ==
  /\ req[2].pc = "saveBuildingToCache"
  /\ TiedPairInList(req[2], "google_places")
  /\ TiedPairInList(req[2], "cache")

(***************************************************************************)
(* Properties of bearing.service                                           *)
(***************************************************************************)
\* C22: calculateBearingDifference(b1, b2) is the smallest rotation between
\* the two bearings, negative values and values of 360 and more included:
\* with d = |norm(b1) - norm(b2)| it is min(d, 360 - d), so it lies in
\* [0,180] and is symmetric in its arguments.
SmallestRotation(bearing1, bearing2) ==
  LET d == Abs((bearing1 % 3600) - (bearing2 % 3600))
  IN Min(d, 3600 - d)

BearingDifferenceIsSmallestRotation ==
  calc.fn = "calculateBearingDifference" =>
    /\ calc.results[1] = SmallestRotation(calc.args[1], calc.args[2])
    /\ calc.results[1] >= 0 /\ calc.results[1] <= 1800
    /\ calc.results[1] = calc.results[2]

\* 350 and 10 degrees are 20 degrees apart.
BearingDifferenceWrapped ==
  /\ calc.fn = "calculateBearingDifference"
  /\ calc.args = <<3500, 100>>
  /\ calc.results = <<200, 200>>

\* C23: normalizeBearing maps every finite input, negative, zero or larger
\* than 360, to the value in [0,360) congruent to it modulo 360.
NormalizedIntoRange ==
  calc.fn = "normalizeBearing" =>
    /\ calc.results[1] >= 0
    /\ calc.results[1] < 360 * UnitsPerDegree
    /\ (calc.results[1] - calc.args[1]) % (360 * UnitsPerDegree) = 0

InvalidBody(body) ==
  \/ body.latitude.kind = "undefined"
  \/ body.latitude.kind = "number" /\ (body.latitude.value < -MaxLatitude
                                       \/ body.latitude.value > MaxLatitude)
  \/ body.longitude.kind = "undefined"
  \/ body.longitude.kind = "number" /\ (body.longitude.value < -MaxLongitude
                                        \/ body.longitude.value > MaxLongitude)
  \/ body.heading.kind = "number" /\ (body.heading.value < 0
                                      \/ body.heading.value > MaxHeading)
  \/ body.searchRadius.kind = "number" /\ body.searchRadius.value <= 0
  \/ \E f \in DOMAIN body : body[f].kind = "string"

\* The step in which the endpoint takes in a body while holding none.
BodyArrives == http.pc # "identifyBuildingController" /\ http' # http

RejectedStep ==
  (BodyArrives /\ InvalidBody(http'.body)) =>
    /\ http'.pc = "responded"
    /\ http'.status = 400
    /\ http'.code = "VALIDATION_ERROR"
    /\ UNCHANGED <<clock, rows, nextId, resultCache, req, invocations, task, adapter>>

DefaultRadiusUsed ==
  http.body.searchRadius = Absent =>
    /\ http.pc = "responded" /\ http.status = 200 => http.searchRadius = 100
    /\ \A r \in Serving :
         (http.pc = "identifyBuildingController" /\ req[r].pc # "idle") =>
           LET q == req[r]
               key == getIdentifyCacheKey(q.input.latitude, q.input.longitude,
                                          q.input.heading, 100)
           IN /\ q.cachedResults # None => key \in DOMAIN resultCache
              /\ q.calls.cacheIdentifyResults > 0 /\ q.pc = "done" =>
                   key \in DOMAIN resultCache
              /\ q.pc = "findNearbyPlaces" =>
                   q.candidates = getCachedBuildings(rows, UserCoordinates(q.input), 100,
                                                     clock.now)
              /\ q.calls.findNearbyPlaces > 0 => q.calls.findNearbyPlacesRadius = 100

\* A second request, without a radius, finds in the building cache the place
\* that lies 60 m away, and asks the places adapter within 100 m.
DefaultRadiusLookup ==
  /\ http.pc = "identifyBuildingController"
  /\ http.body.searchRadius = Absent
  /\ req[1].pc = "findNearbyPlaces"
  /\ \E i \in 1..Len(req[1].candidates) : req[1].candidates[i].externalId = "pB"
  /\ req[1].calls.findNearbyPlacesRadius = 100

\* C30: the candidate list that identifyBuilding returns holds at most one
\* candidate per external building id.
OneCandidatePerExternalId ==
  \A r \in Requests :
    req[r].outcome.status = "returned" =>
      LET candidates == req[r].outcome.candidates
      IN \A i, j \in 1..Len(candidates) :
           (i # j /\ Truthy(candidates[i].externalId)) =>
             candidates[i].externalId # candidates[j].externalId

NoRepeatedSignature ==
  \A i \in 2..Len(hook.sent) :
    hook.sent[i].signature = hook.sent[i - 1].signature => hook.sent[i].refetched

\* A step of the hook, as C28 describes it.
DebounceStep ==
  /\ hook'.last = "timer" => hook.unchangedFor >= 2000
  /\ Len(hook'.sent) > Len(hook.sent) => hook'.last \in {"timer", "refetch"}
  /\ hook'.props # hook.props =>
       hook'.timers = {[elapsed |-> 0, closure |-> hook'.props, current |-> TRUE]}
  /\ ~hook'.mounted => hook'.timers = {}
  /\ \A t \in hook'.timers : t.elapsed = hook'.unchangedFor /\ t.closure = hook'.props

FirstRunCached ==
  /\ req[1].pc = "done"
  /\ req[1].outcome.status = "returned"
  /\ req[1].cachedResults = None
  /\ "cacheIdentifyResults" \notin req[1].failed

FirstRunKey ==
  getIdentifyCacheKey(req[1].input.latitude, req[1].input.longitude, req[1].input.heading,
                      SearchRadius(req[1].input))

\* C31: a miss-path run that completes leaves its list, empty or not, in the
\* result cache; an identical request within the time to live gets that list
\* as a hit and calls no adapter.
CompletedRunIsCached ==
  (FirstRunCached /\ clock.ticks = 0) =>
    /\ req[1].calls.cacheIdentifyResults = 1
    /\ req[2].pc = "idle" =>
         /\ FirstRunKey \in DOMAIN resultCache
         /\ resultCache[FirstRunKey].value = JSONStringify(req[1].outcome.candidates)
    /\ (req[2].pc \notin {"idle", "getCachedIdentifyResults"}
        /\ req[2].input = req[1].input
        /\ "getCachedIdentifyResults" \notin req[2].failed) =>
         /\ req[2].cachedResults =
              Some(JSONParse(JSONStringify(req[1].outcome.candidates)))
         /\ req[2].pc = "done"
         /\ req[2].outcome = [status |-> "returned", candidates |-> req[2].cachedResults[1]]
         /\ req[2].calls = NoCalls

\* The first run found nothing; the second, identical, is answered with the
\* empty list from the cache.
EmptyListHit ==
  /\ FirstRunCached
  /\ req[1].outcome.candidates = <<>>
  /\ req[1].calls.reverseGeocode = 1
  /\ req[2].pc = "done"
  /\ req[2].cachedResults = Some(<<>>)
  /\ req[2].outcome = [status |-> "returned", candidates |-> <<>>]
  /\ req[2].calls = NoCalls

\* C32: a failure of the places cache, on the read before the provider call
\* or on the write after it, does not change what findNearbyPlaces returns:
\* whenever the provider call succeeded, the filtered provider results are
\* returned.
PlacesCacheFailureHarmless ==
  (adapter.fn = "findNearbyPlaces" /\ adapter.pc = "done" /\ adapter.queried # <<>>
   /\ adapter.queried[1].status \in {"OK", "ZERO_RESULTS"}) =>
    adapter.outcome = [status |-> "returned",
                       value |-> ToPlaceResults(adapter.queried[1].results)]

\* The key of the call in flight.
AdapterCacheKey(a) ==
  IF a.fn = "findNearbyPlaces"
  THEN getPlacesCacheKey(a.coordinates.latitude, a.coordinates.longitude, a.radius)
  ELSE getGeocodeCacheKey(a.coordinates.latitude, a.coordinates.longitude)

AdapterCacheStep ==
  /\ \A k \in DOMAIN resultCache' :
       (k \notin DOMAIN resultCache \/ resultCache'[k] # resultCache[k]) =>
         /\ k = AdapterCacheKey(adapter)
         /\ adapter.cache = "miss"
         /\ adapter.queried # <<>>
         /\ adapter.fn = "findNearbyPlaces" =>
              /\ adapter.queried[1].status \in {"OK", "ZERO_RESULTS"}
              /\ resultCache'[k].value =
                   StringifyPlaces(ToPlaceResults(adapter.queried[1].results))
         /\ adapter.fn = "reverseGeocode" =>
              /\ adapter.queried[Len(adapter.queried)].result # None
              /\ resultCache'[k].value =
                   StringifyGeocode(adapter.queried[Len(adapter.queried)].result[1])
  /\ adapter'.cache = "hit" => adapter'.queried = <<>>
  /\ (adapter'.fn = "reverseGeocode" /\ adapter'.pc = "done" /\ adapter'.cache = "miss"
      /\ adapter'.outcome.value = None) =>
       RedisGet(resultCache', AdapterCacheKey(adapter'), clock'.now) = None

\* C33: the adapter caches store no failure: reverseGeocode writes only a
\* provider's result and leaves nothing behind a null, findNearbyPlaces
\* writes only after status OK or ZERO_RESULTS, and a call answered from the
\* cache queries no provider.
AdapterCachesStoreNoFailure == [][AdapterCacheStep]_vars

\* A second call asks the providers again: the first left nothing in Redis.
ProvidersAskedAgain ==
  /\ invocations = 2
  /\ clock.ticks = 0
  /\ adapter.fn = "reverseGeocode"
  /\ adapter.cache = "miss"
  /\ Len(adapter.queried) = 2
  /\ adapter.pc = "done"
  /\ adapter.outcome.value = None
  /\ DOMAIN resultCache = {}

\* C34: overlapping saves cannot exhaust the pool against themselves: never
\* is every client of the pool held by a save that waits for a further client
\* for its existence check; and every client handed out is released on every
\* path.
PoolNotSelfExhausted ==
  /\ ~(pool.checkedOut = POOL_MAX /\ pool.lookupConnect = POOL_MAX)
  /\ pool.checkedOut = pool.lookupConnect + 2 * pool.lookupQuery + pool.query
                         + (IF pool.near = "query" THEN 1 ELSE 0)

\* The answer to a request older than one already answered leaves what the
\* hook exposes as it is.
StaleAnswerStep ==
  \A i \in 1..Len(hook.inflight) :
    (hook'.last = "response" /\ hook'.inflight = Remove(hook.inflight, i)
     /\ hook.inflight[i].seq < hook.answered) =>
      /\ hook'.candidates = hook.candidates
      /\ hook'.error = hook.error
      /\ hook'.isLoading = hook.isLoading

\* C35: when two requests overlap, the response to the older one never
\* replaces the candidates, the error or the loading state that the newer
\* one produced.
StaleAnswerIgnored == [][StaleAnswerStep]_vars

\* C36: whenever position and heading are available and the hook is enabled,
\* the hook eventually sends a request, also while the compass and the
\* location watcher keep delivering readings.
RequestEventuallySent ==
  (hook.mounted /\ hook.props.enabled /\ hook.props.heading # Undefined
     /\ hook.props.latitude # Undefined /\ hook.props.longitude # Undefined)
    ~> (Len(hook.sent) > 0)

\* The process has exited with the code the shutdown earned: 0 only when the
\* server, then the pool, then Redis were closed, 1 otherwise.
ExitCodeEarned ==
  proc.pc = "exited" =>
    /\ proc.exitCode \in {0, 1}
    /\ proc.exitCode = 0 =>
         /\ proc.closed = <<"server", "pool", "redis">>
         /\ proc.server = "closed" /\ proc.pool = "ended"
         /\ proc.redis \in {"closed", "disconnected"}

\* No forced-shutdown timer is overdue in a process that still runs.
NoTimerOverdue ==
  proc.pc = "running" =>
    \A i \in 1..Len(proc.timers) : proc.timers[i] <= FORCE_SHUTDOWN_MS

\* C37: after a shutdown signal the process always exits, with code 0 only
\* after the HTTP server, then the pool, then Redis were closed, with code 1
\* otherwise, and no later than the forced-shutdown timer; also when a second
\* signal arrives during shutdown.
ShutdownTerminates ==
  /\ [](ExitCodeEarned /\ NoTimerOverdue)
  /\ (Len(proc.signals) > 0) ~> (proc.pc = "exited")

GracefulExit ==
  /\ proc.pc = "exited" /\ proc.exitCode = 0
  /\ proc.closed = <<"server", "pool", "redis">>
  /\ Len(proc.signals) = 1
====
